---- MODULE Spec2Model ----
\* Economy / ledger and wagering engine of src/bot.py.
\*
\* Scheduling model.  The bot is one asyncio event loop: a handler runs without
\* interruption from one real suspension point to the next.  The suspension
\* points are the awaits on I/O or timers (send_message, edit_message, msg.edit,
\* original_response, asyncio.sleep).  `await eco_add(...)` is not one of them:
\* eco_add is an `async def` whose body holds no await, so awaiting it runs it
\* to completion inside the caller's segment.  Every action below is one such
\* segment of one handler.
EXTENDS Integers, Sequences, FiniteSets, TLC

\* ---------------------------------------------------------------- bounds
\* number of handler slots that may be in flight at once
NumHandlers == 2
\* number of commands started in one behaviour
MaxOps == 2
\* the crash multiplier grid is 1.00, 1.10, ... 1.00 + MaxMultSteps/10
MaxMultSteps == 4
\* longest blackjack hand a player holds in the model
MaxHand == 3

\* number of redeem and redeemadmin commands in one behaviour
MaxRedeemOps == 4
\* number of clock advances in one behaviour
MaxTicks == 2
\* number of times the bot process is killed and started again
MaxRestarts == 1
\* number of /coinflip and /guess commands in one behaviour
MaxWagers == 1
\* number of /daily commands in one behaviour
MaxClaims == 3
\* number of direct calls of eco_add and log_history in one behaviour
MaxCalls == 3

\* ---------------------------------------------------------------- domains
\* the guild whose members issue the commands of the one-guild specifications,
\* and every guild the bot is in
Guilds == {"G1"}
AllGuilds == {"G1", "G2"}
Users == {"u1", "u2"}
\* the members who start game rounds, and those who call /grant
Players == {"u1"}
Admins == {"u2"}
Codes == {"c1"}
Handlers == 1..NumHandlers
\* the slot of the /coinflip or /guess handler in flight (a second one could
\* only be waiting on its send_message, which touches no state)
WagerHandlers == {1}
\* balance every account holds in the store the bot loads at start
InitBalances == {20}
\* bet amounts typed by players (5 is below the default minimum)
Bets == {5, 10}
GrantAmounts == {10}
\* the arguments typed into /redeemadmin create and edit; an optional argument
\* is a set, empty when the argument is left out
CodeAmounts == {5}
MaxUsesInputs == {-1, 1, 2}
CreateExpiresInputs == {{}, {1}}
EditAmountInputs == {{}, {7}}
EditMaxUsesInputs == {{}} \cup {{m} : m \in MaxUsesInputs}
EditExpiresInputs == {{}, {0}, {1}}
EditDisableInputs == {{}, {TRUE}, {FALSE}}
\* the channels of a guild
Channels == {"ch1", "ch2"}
\* bets typed into /coinflip and /guess (30 is more than any account holds)
WagerBets == {5, 10, 30}
\* bets typed into /blackjack
BJBets == {5, 20}
\* side of /coinflip as typed, and the side random.choice gives
SideInputs == {"heads", "edge"}
Sides == {"heads", "tails"}
\* range_max and guess of /guess as typed, and the targets random.randint gives
RangeInputs == {3, 4}
GuessInputs == {1, 4}
Targets == {1, 2}
\* the arguments typed into /gambling_settings
EnabledInputs == {{}, {FALSE}}
ChannelInputs == {{}, {"ch1"}}
ClearChannelInputs == {{}, {TRUE}}
\* the roles of a guild, the role sets a member may hold, and the banker_role
\* and clear_banker_role arguments typed into /gambling_settings
Roles == {"r1"}
RoleSets == SUBSET Roles
BankerRoleInputs == {{}, {"r1"}}
ClearBankerRoleInputs == {{}, {TRUE}}
\* the min_bet argument typed into /gambling_settings and into the Min Bet
\* field of the admin panel
MinBetInputs == {{}, {-5}}
\* the seconds that pass between two looks at the clock of /daily
DaySteps == {84599, 84600}
\* the deltas handed to eco_add and the results handed to log_history by the
\* direct calls, and the entries a history holds when they start
\* order[...] of the cards draw_card() gives in the model (A, 7, K), and the
\* button clicked
CardValues == {1, 7, 13}
Picks == {"high", "low"}
LedgerDeltas == {-10, -5, 0, 5, 20}
LogResults == {-10, 0, 5}
LoadedLens == {0, 99, 100}

\* ---------------------------------------------------------------- constants
MIN_BET == 10
MAX_BET == 50000
\* HOUSE_EDGE 0.02, in hundredths
HOUSE_EDGE == 2
DAILY_AMOUNT == 500
\* MIN_CASHOUT 1.25, in hundredths
MIN_CASHOUT == 125
HISTORY_CAP == 100
\* the clock the bot starts at, and the seconds one clock advance adds
StartTs == 100
TickSecs == 45
SecondsPerMinute == 60

VARIABLES
  balances,   \* ECON["balances"][g][u]
  stats,      \* ECON["stats"][g][u]
  history,    \* ECON["history"][g][u]
  settings,   \* ECON["settings"][g]
  redeem,     \* ECON["redeem"][g][code]
  now,        \* _now_ts()
  ticks,      \* clock advances so far
  ops,        \* commands started so far
  bal0,       \* the balance every account held at start
  sumDeltas,  \* per account, the sum of the deltas handed to eco_add
  grant,      \* grant_cmd handlers in flight
  crash,      \* the crash round
  bj,         \* the blackjack round
  rd,         \* redeem_cmd handlers in flight
  redeemed,   \* per stored code entry and user, the redeems that succeeded
  lastFill,   \* the redeem that last brought an entry's uses to its max_uses
  disk,       \* economy.json: what _save_json last put in place of the file
  wg,         \* coinflip_cmd and guess_cmd handlers in flight
  restarts,   \* times the process was killed and started again
  last_daily, \* ECON["last_daily"][g][u]
  dl,         \* daily_cmd handlers in flight
  hl,         \* the hi-lo round
  last_cmd,   \* the last command that keeps no handler slot, and its caller
  trace,      \* per account: the deltas and the entries of the direct calls
              \* of eco_add and log_history, the times of the honored claims
  jjk,        \* JJK_ACTIVE of one (guild, channel), the on_message handlers in
              \* flight, and the answers that were taken for the winning one
  auto        \* unitspawn.json, UNITSPAWN and the worker task of each guild

vars == <<balances, stats, history, settings, redeem, now, ticks, ops, bal0, jjk, auto,
          sumDeltas, grant, crash, bj, rd, redeemed, lastFill, disk, wg,
          restarts, last_daily, dl, hl, last_cmd, trace>>

\* what no game handler writes
gameFrame == <<settings, redeem, now, ticks, bal0, jjk, auto, rd, redeemed, lastFill, wg,
               restarts, last_daily, dl, hl, last_cmd, trace>>

\* what no redeem handler writes
redeemFrame == <<history, settings, bal0, jjk, auto, grant, crash, bj, wg, restarts,
                 last_daily, dl, hl, trace>>

ledger == <<balances, stats, history, sumDeltas, disk>>

\* ---------------------------------------------------------------- dicts
EmptyMap == [x \in {} |-> 0]

Get(m, k, default) == IF k \in DOMAIN m THEN m[k] ELSE default

Put(m, k, v) == [x \in (DOMAIN m) \cup {k} |-> IF x = k THEN v ELSE m[x]]

\* ---------------------------------------------------------------- settings
\* Python's None, as a settings value
None == "None"

DEFAULT_CONFIG ==
  [GAMBLING_ENABLED |-> TRUE, MIN_BET |-> MIN_BET, MAX_BET |-> MAX_BET,
   HOUSE_EDGE |-> HOUSE_EDGE, DAILY_AMOUNT |-> DAILY_AMOUNT,
   GAMBLING_CHANNEL_ID |-> None, BANKER_ROLE_ID |-> None]

guild_setting(g, key) ==
  IF key \in DOMAIN settings[g] THEN settings[g][key] ELSE DEFAULT_CONFIG[key]

\* a set_guild_setting that forgets the guild's other overrides
set_guild_setting_Fresh(st, g, key, value) ==
  [st EXCEPT ![g] = [x \in {key} |-> value]]

\* the settings dict after set_guild_setting(g, key, value)
set_guild_setting(st, g, key, value) == [st EXCEPT ![g] = Put(@, key, value)]

\* <<min_bet, max_bet, edge, daily>>
_limits(g) ==
  <<guild_setting(g, "MIN_BET"), guild_setting(g, "MAX_BET"),
    guild_setting(g, "HOUSE_EDGE"), guild_setting(g, "DAILY_AMOUNT")>>

\* ---------------------------------------------------------------- ledger
eco_get(g, u) == Get(balances[g], u, 0)

\* a stale-free overwrite instead of an addition
eco_add_balance_overwrite(old, delta) == delta

\* ECON["balances"][g][u] = int(ECON["balances"][g].get(u, 0)) + int(delta)
eco_add_balance(old, delta) == old + delta

NoStats == [bets |-> 0, won |-> 0, lost |-> 0, biggest |-> 0]

\* an eco_add that keeps no count of the losses
eco_add_stats_NoLoss(s, delta) ==
  IF delta > 0
    THEN [s EXCEPT !.won = @ + delta,
                   !.biggest = IF delta > @ THEN delta ELSE @]
    ELSE s

\* an eco_add that takes every win for the biggest
eco_add_stats_LastWin(s, delta) ==
  IF delta > 0
    THEN [s EXCEPT !.won = @ + delta, !.biggest = delta]
    ELSE IF delta < 0 THEN [s EXCEPT !.lost = @ + (-delta)] ELSE s

eco_add_stats(s, delta) ==
  IF delta > 0
    THEN [s EXCEPT !.won = @ + delta,
                   !.biggest = IF delta > @ THEN delta ELSE @]
    ELSE IF delta < 0 THEN [s EXCEPT !.lost = @ + (-delta)] ELSE s

\* one balance per user for the whole process instead of one per guild
BalancesAfterAdd_Global(b, g, u, delta) ==
  [x \in DOMAIN b |-> Put(b[x], u, eco_add_balance(Get(b[g], u, 0), delta))]

\* the balances dict after eco_add(g, u, delta)
BalancesAfterAdd(b, g, u, delta) ==
  [b EXCEPT ![g] = Put(@, u, eco_add_balance(Get(@, u, 0), delta))]

\* the stats dict after eco_add(g, u, delta)
StatsAfterAdd(s, g, u, delta) ==
  [s EXCEPT ![g] = Put(@, u, eco_add_stats(Get(@, u, NoStats), delta))]

\* a log_history that never cuts the list
log_history_list_Uncapped(h, entry) == Append(h, entry)

\* the list log_history leaves: the new entry appended, the last 100 kept
log_history_list(h, entry) ==
  LET a == Append(h, entry)
  IN  IF Len(a) > HISTORY_CAP
        THEN SubSeq(a, Len(a) - HISTORY_CAP + 1, Len(a)) ELSE a

HistoryAfterLog(h, g, u, game, bet, result) ==
  [h EXCEPT ![g] = Put(@, u, log_history_list(Get(@, u, <<>>),
       [t |-> now, game |-> game, bet |-> bet, result |-> result]))]

StatsAfterLog(s, g, u) ==
  [s EXCEPT ![g] = Put(@, u, [Get(@, u, NoStats) EXCEPT !.bets = @ + 1])]

SumAfter(sd, g, u, delta) == [sd EXCEPT ![g][u] = @ + delta]

\* ---------------------------------------------------------------- the file
\* json.dump(ECON): the parts of the store the model follows
Dumped(b, s, h, st, r, ld) ==
  [balances |-> b, stats |-> s, history |-> h, settings |-> st, redeem |-> r,
   last_daily |-> ld]

\* a _save_json whose os.replace never happens
_save_json_dropped(file, data, ok) == file

\* _save_json: the file after the call.  The dump goes to economy.json.tmp and
\* os.replace puts it in place of economy.json; when the write raises (ok is
\* FALSE) the replace is not reached and the file is what it was.
_save_json(file, data, ok) == IF ok THEN data ELSE file

\* ---------------------------------------------------------------- rounding
\* Python round() of the non-negative rational n/d: to nearest, ties to even
Round(n, d) ==
  LET q == n \div d
      r == n % d
  IN  IF 2 * r < d THEN q
      ELSE IF 2 * r > d THEN q + 1
      ELSE IF q % 2 = 0 THEN q ELSE q + 1

\* int(round(bet * (mult - edge))), mult and edge in hundredths
Payout(bet, mult, edge) ==
  IF mult - edge <= 0 THEN 0 ELSE Round(bet * (mult - edge), 100)

\* ---------------------------------------------------------------- init
StoreLoaded ==
  /\ balances = [g \in AllGuilds |->
                   IF bal0 = 0 THEN EmptyMap ELSE [u \in Users |-> bal0]]
  /\ stats = [g \in AllGuilds |-> EmptyMap]
  /\ history = [g \in AllGuilds |-> EmptyMap]
  /\ settings = [g \in AllGuilds |-> EmptyMap]
  /\ redeem = [g \in AllGuilds |-> EmptyMap]
  /\ last_daily = [g \in AllGuilds |-> EmptyMap]
  /\ now = StartTs
  /\ ticks = 0
  /\ ops = 0
  /\ sumDeltas = [g \in AllGuilds |-> [u \in Users |-> 0]]
  /\ disk = Dumped(balances, stats, history, settings, redeem, last_daily)
  /\ restarts = 0

StoreInit ==
  /\ bal0 \in InitBalances
  /\ StoreLoaded

\* manage_guild and roles are the caller's permission and roles
GrantIdle ==
  [pc |-> "idle", g |-> "G1", user |-> "u1", new_bal |-> 0, out |-> "none",
   manage_guild |-> FALSE, roles |-> {}]

CrashIdle ==
  [pc |-> "idle", g |-> "G1", u |-> "u1", bet |-> 0, edge |-> 0,
   multiplier |-> 100, bust_at |-> 0, cashed |-> FALSE, attached |-> FALSE,
   detaching |-> FALSE, out |-> "none", deltas |-> <<>>]

BJIdle ==
  [pc |-> "idle", g |-> "G1", u |-> "u1", bet |-> 0, edge |-> 0,
   current_bet |-> 0, finished |-> FALSE, player |-> <<>>, dealer |-> <<>>,
   attached |-> FALSE, editing |-> FALSE, out |-> "none", deltas |-> <<>>,
   clicker |-> "none"]

RedeemIdle ==
  [pc |-> "idle", g |-> "G1", user |-> "u1", code |-> "c1", out |-> "none",
   new_bal |-> 0]

NoFill == [on |-> FALSE, g |-> "G1", code |-> "c1", user |-> "u1"]

WagerIdle ==
  [pc |-> "idle", g |-> "G1", u |-> "u1", channel |-> "ch1", game |-> "none",
   bet |-> 0, delta |-> 0, new_bal |-> 0, out |-> "none", failed |-> FALSE,
   win |-> FALSE, pick |-> "none", roll |-> 0]

DailyIdle ==
  [pc |-> "idle", g |-> "G1", u |-> "u1", at |-> 0, last |-> 0, amount |-> 0,
   out |-> "none"]

HiLoIdle ==
  [pc |-> "idle", g |-> "G1", u |-> "u1", bet |-> 0, edge |-> 0, base_v |-> 0,
   nxt_v |-> 0, done |-> FALSE, attached |-> FALSE, editing |-> FALSE, out |-> "none",
   deltas |-> <<>>]

\* roles: the caller's roles, where the command looks at them; keys: the
\* settings keys the command wrote
NoCmd ==
  [cmd |-> "none", g |-> "G1", manage_guild |-> FALSE, roles |-> {}, keys |-> {},
   sender |-> "none", user |-> "none", channel |-> "none", amount |-> 0]

\* claims: the times of the daily claims that were honored
\* reset: the guild's leaderboard was reset
NoTrace == [deltas |-> <<>>, entries |-> <<>>, claims |-> <<>>, reset |-> FALSE]

\* no spawn is armed: JJK_ACTIVE has no entry for the key
NoSpawn == [id |-> 0, deadline |-> 0]

\* wins: per answer taken for the winning one, the spawn, the author and the
\* reward
JJKIdle ==
  [active |-> NoSpawn, next_id |-> 1,
   h |-> [m \in Handlers |-> [pc |-> "idle", id |-> 0]], wins |-> <<>>]

\* file: the guilds in unitspawn.json; obj: per guild the dict object UNITSPAWN
\* holds for it (0: none), objects being told apart by the number `gen` of the
\* load or assignment that made them; worker: the task in UNITSPAWN_TASKS, its
\* position, the object it bound to cfg, and whether it has sent a spawn
NoWorker == [pc |-> "none", cfg |-> 0, spawned |-> FALSE]
AutoIdle ==
  [file |-> {}, gen |-> 0, obj |-> [g \in AllGuilds |-> 0],
   worker |-> [g \in AllGuilds |-> NoWorker]]

HandlersInit ==
  /\ jjk = JJKIdle
  /\ auto = AutoIdle
  /\ grant = [h \in Handlers |-> GrantIdle]
  /\ crash = CrashIdle
  /\ bj = BJIdle
  /\ rd = [h \in Handlers |-> RedeemIdle]
  /\ redeemed = [g \in AllGuilds |-> [c \in Codes |-> [u \in Users |-> 0]]]
  /\ lastFill = NoFill
  /\ wg = [h \in WagerHandlers |-> WagerIdle]
  /\ dl = [h \in Handlers |-> DailyIdle]
  /\ hl = HiLoIdle
  /\ last_cmd = NoCmd
  /\ trace = [g \in AllGuilds |-> [u \in Users |-> NoTrace]]

Init ==
  /\ StoreInit
  /\ HandlersInit

\* ---------------------------------------------------------------- grant
\* _get_banker_role_id: `int(val) if val else None`
_get_banker_role_id(g) == guild_setting(g, "BANKER_ROLE_ID")

\* a check that takes any role for the banker role
user_is_banker_AnyRole(g, manage_guild, roles) == manage_guild \/ roles # {}

\* user_is_banker, for a caller in guild g with the manage_guild permission or
\* not and with the roles `roles`
user_is_banker(g, manage_guild, roles) ==
  IF manage_guild THEN TRUE
  ELSE IF _get_banker_role_id(g) = None THEN FALSE
  ELSE _get_banker_role_id(g) \in roles

\* grant_cmd up to its await: the checks, eco_add, the two log_history calls
GrantCall(h, g, caller, manage_guild, roles, user, amount) ==
  /\ grant[h].pc = "idle"
  /\ ops < MaxOps
  /\ ops' = ops + 1
  /\ IF ~user_is_banker(g, manage_guild, roles)
       THEN /\ grant' = [grant EXCEPT ![h] =
                 [GrantIdle EXCEPT !.pc = "reply", !.g = g, !.user = user,
                                   !.out = "not banker",
                                   !.manage_guild = manage_guild, !.roles = roles]]
            /\ UNCHANGED ledger
       ELSE /\ balances' = BalancesAfterAdd(balances, g, user, amount)
            /\ sumDeltas' = SumAfter(sumDeltas, g, user, amount)
            /\ history' = HistoryAfterLog(
                 HistoryAfterLog(history, g, caller, "grant", amount, -amount),
                 g, user, "grant", amount, amount)
            /\ stats' = StatsAfterLog(
                 StatsAfterLog(StatsAfterAdd(stats, g, user, amount), g, caller),
                 g, user)
            /\ disk' = _save_json(disk,
                 Dumped(balances', stats', history', settings, redeem, last_daily), TRUE)
            /\ grant' = [grant EXCEPT ![h] =
                 [pc |-> "reply", g |-> g, user |-> user,
                  new_bal |-> balances'[g][user], out |-> "added",
                  manage_guild |-> manage_guild, roles |-> roles]]
  /\ UNCHANGED <<gameFrame, crash, bj>>

\* await interaction.response.send_message(...) completes
GrantReplied(h) ==
  /\ grant[h].pc = "reply"
  /\ grant' = [grant EXCEPT ![h] = GrantIdle]
  /\ UNCHANGED <<ledger, gameFrame, ops, crash, bj>>

Grant ==
  \/ \E h \in Handlers, g \in Guilds, caller \in Admins,
        manage_guild \in BOOLEAN, user \in Users, amount \in GrantAmounts :
       GrantCall(h, g, caller, manage_guild, {}, user, amount)
  \/ \E h \in Handlers : GrantReplied(h)

\* ---------------------------------------------------------------- crash
\* the multipliers of the model, in hundredths
MultGrid == {100 + 10 * k : k \in 0..MaxMultSteps}

\* bust_at = 1.05 + random()^3 * 2.95, in hundredths
BustPoints == {105, 130}

\* a multiplier that does not grow
Grown_Stalled(m) == {m}

\* multiplier *= 1 + random.uniform(0.06, 0.22)
Grown(m) == {n \in MultGrid : 106 * m <= 100 * n /\ 100 * n <= 122 * m}

\* int(round(bet * max(0.0, multiplier - 1.0 - edge)))
CrashWin(bet, multiplier, edge) == Payout(bet, multiplier - 100, edge)

\* the reason a wager is refused, or "ok"
BetCheck(g, u, bet) ==
  IF ~guild_setting(g, "GAMBLING_ENABLED") THEN "disabled"
  ELSE IF ~(_limits(g)[1] <= bet /\ bet <= _limits(g)[2]) THEN "limits"
  ELSE IF eco_get(g, u) < bet THEN "insufficient"
  ELSE "ok"

CrashFree == crash.pc \in {"idle", "done"} /\ ~crash.attached /\ ~crash.detaching

\* crash_cmd up to its first await: the checks, the bust point, the view
CrashStart(g, u, bet, bust_at) ==
  /\ CrashFree
  /\ ops < MaxOps
  /\ ops' = ops + 1
  /\ crash' = IF BetCheck(g, u, bet) # "ok"
                THEN [CrashIdle EXCEPT !.pc = "done", !.g = g, !.u = u,
                                       !.out = BetCheck(g, u, bet)]
                ELSE [CrashIdle EXCEPT !.pc = "sending", !.g = g, !.u = u,
                                       !.bet = bet, !.edge = _limits(g)[3],
                                       !.bust_at = bust_at]
  /\ UNCHANGED <<ledger, gameFrame, grant, bj>>

\* send_message(view=view) completes: the button is live
CrashSent ==
  /\ crash.pc = "sending"
  /\ crash' = [crash EXCEPT !.pc = "fetch", !.attached = TRUE]
  /\ UNCHANGED <<ledger, gameFrame, ops, grant, bj>>

\* the test `while not view.cashed`, and `if not view.cashed` after the loop
CrashLoopTest == IF crash.cashed THEN "done" ELSE "sleep"

\* original_response() completes: the loop is entered
CrashFetched ==
  /\ crash.pc = "fetch"
  /\ crash' = [crash EXCEPT !.pc = CrashLoopTest]
  /\ UNCHANGED <<ledger, gameFrame, ops, grant, bj>>

\* asyncio.sleep(0.9) completes: one tick of the loop, up to its next await
CrashWake(m) ==
  /\ crash.pc = "sleep"
  /\ IF crash.cashed
       THEN /\ crash' = [crash EXCEPT !.pc = "done"]
            /\ UNCHANGED ledger
       ELSE /\ m \in Grown(crash.multiplier)
            /\ IF m >= crash.bust_at
                 THEN /\ balances' = BalancesAfterAdd(balances, crash.g, crash.u, -crash.bet)
                      /\ sumDeltas' = SumAfter(sumDeltas, crash.g, crash.u, -crash.bet)
                      /\ stats' = StatsAfterLog(
                           StatsAfterAdd(stats, crash.g, crash.u, -crash.bet),
                           crash.g, crash.u)
                      /\ history' = HistoryAfterLog(history, crash.g, crash.u,
                                                    "crash", crash.bet, -crash.bet)
                      /\ disk' = _save_json(disk,
                           Dumped(balances', stats', history', settings, redeem, last_daily), TRUE)
                      /\ crash' = [crash EXCEPT !.pc = "bustEdit", !.multiplier = m,
                                     !.deltas = Append(@, -crash.bet)]
                 ELSE /\ crash' = [crash EXCEPT !.pc = "edit", !.multiplier = m]
                      /\ UNCHANGED ledger
  /\ UNCHANGED <<gameFrame, ops, grant, bj>>

\* msg.edit(..., view=view) completes: back to the loop test
CrashEdited ==
  /\ crash.pc = "edit"
  /\ crash' = [crash EXCEPT !.pc = CrashLoopTest]
  /\ UNCHANGED <<ledger, gameFrame, ops, grant, bj>>

\* msg.edit(..., view=None) after the bust completes: the button is gone
CrashBustEdited ==
  /\ crash.pc = "bustEdit"
  /\ crash' = [crash EXCEPT !.pc = "done", !.attached = FALSE, !.out = "crashed"]
  /\ UNCHANGED <<ledger, gameFrame, ops, grant, bj>>

\* a guard without the 1.25 threshold
CashoutGuard_NoThreshold(cashed, multiplier) ==
  IF cashed THEN "ignored" ELSE "cash"

\* the guard of CrashView.cashout: "ignored", "too early" or "cash"
CashoutGuard(cashed, multiplier) ==
  IF cashed THEN "ignored"
  ELSE IF multiplier < MIN_CASHOUT THEN "too early"
  ELSE "cash"

\* a click on Cash Out: CrashView.cashout up to its await
CrashCashout ==
  /\ crash.attached
  /\ LET verdict == CashoutGuard(crash.cashed, crash.multiplier)
         win == CrashWin(crash.bet, crash.multiplier, crash.edge)
     IN  IF verdict = "cash"
           THEN /\ balances' = BalancesAfterAdd(balances, crash.g, crash.u, win)
                /\ sumDeltas' = SumAfter(sumDeltas, crash.g, crash.u, win)
                /\ stats' = StatsAfterLog(
                     StatsAfterAdd(stats, crash.g, crash.u, win), crash.g, crash.u)
                /\ history' = HistoryAfterLog(history, crash.g, crash.u,
                                              "crash", crash.bet, win)
                /\ disk' = _save_json(disk,
                     Dumped(balances', stats', history', settings, redeem, last_daily), TRUE)
                /\ crash' = [crash EXCEPT !.cashed = TRUE, !.detaching = TRUE,
                               !.out = "cashed", !.deltas = Append(@, win)]
           ELSE /\ crash' = [crash EXCEPT !.out = verdict]
                /\ UNCHANGED ledger
  /\ UNCHANGED <<gameFrame, ops, grant, bj>>

\* inter.response.edit_message(..., view=None) of a cash-out completes
CrashCashEdited ==
  /\ crash.detaching
  /\ crash' = [crash EXCEPT !.detaching = FALSE, !.attached = FALSE]
  /\ UNCHANGED <<ledger, gameFrame, ops, grant, bj>>

\* the view's timeout (25 s without a click) stops it
CrashViewTimeout ==
  /\ crash.attached
  /\ crash' = [crash EXCEPT !.attached = FALSE]
  /\ UNCHANGED <<ledger, gameFrame, ops, grant, bj>>

Crash ==
  \/ \E g \in Guilds, u \in Players, bet \in Bets, bust_at \in BustPoints :
       CrashStart(g, u, bet, bust_at)
  \/ CrashSent
  \/ CrashFetched
  \/ \E m \in MultGrid : CrashWake(m)
  \/ CrashEdited
  \/ CrashBustEdited
  \/ CrashCashout
  \/ CrashCashEdited
  \/ CrashViewTimeout

Next == Grant \/ Crash

Spec == Init /\ [][Next]_vars

\* The steps of crash_cmd itself.  Each is the completion of an await of the
\* running task (send_message, original_response, asyncio.sleep, msg.edit): the
\* event loop resumes the task once the await is done, so a step that stays
\* possible is taken.  Clicks, grants and view timeouts carry no such promise.
CrashFair ==
  /\ WF_vars(CrashSent)
  /\ WF_vars(CrashFetched)
  /\ WF_vars(\E m \in MultGrid : CrashWake(m))
  /\ WF_vars(CrashEdited)
  /\ WF_vars(CrashBustEdited)

SpecCrashFair == Spec /\ CrashFair

\* ---------------------------------------------------------------- blackjack
Ranks == {"A", "2", "3", "4", "5", "6", "7", "8", "9", "10", "J", "Q", "K"}

\* the ranks deck.pop() yields in the model (the shoe holds 16 cards of each
\* rank, more than a round of the model draws)
DrawRanks == {"A", "7", "K"}

\* int(r) of a number card
RankInt ==
  [r \in Ranks \ {"A", "J", "Q", "K"} |->
     CASE r = "2" -> 2 [] r = "3" -> 3 [] r = "4" -> 4 [] r = "5" -> 5
       [] r = "6" -> 6 [] r = "7" -> 7 [] r = "8" -> 8 [] r = "9" -> 9
       [] r = "10" -> 10]

\* the first loop of card_value: <<v, aces>>
RECURSIVE CardSum(_)
CardSum(hand) ==
  IF hand = <<>> THEN <<0, 0>>
  ELSE LET rest == CardSum(SubSeq(hand, 1, Len(hand) - 1))
           r == hand[Len(hand)]
       IN  IF r \in {"J", "Q", "K"} THEN <<rest[1] + 10, rest[2]>>
           ELSE IF r = "A" THEN <<rest[1] + 11, rest[2] + 1>>
           ELSE <<rest[1] + RankInt[r], rest[2]>>

\* a loop that turns every ace into a 1 as soon as the hand busts
Downgrade_AllAces(v, aces) == IF v > 21 /\ aces > 0 THEN v - 10 * aces ELSE v

\* while v > 21 and aces: v -= 10; aces -= 1
RECURSIVE Downgrade(_, _)
Downgrade(v, aces) ==
  IF v > 21 /\ aces > 0 THEN Downgrade(v - 10, aces - 1) ELSE v

card_value(hand) == Downgrade(CardSum(hand)[1], CardSum(hand)[2])

\* while card_value(dealer) < 17: dealer.append(deck.pop()): the hands the
\* loop can leave
RECURSIVE DealerPlay(_)
DealerPlay(dealer) ==
  IF card_value(dealer) >= 17 THEN {dealer}
  ELSE UNION {DealerPlay(Append(dealer, r)) : r \in DrawRanks}

\* a finish() that settles whatever the flag says
FinishSettles_NoFlag(finished) == TRUE

\* BJView.finish: `if self.finished: return`
FinishSettles(finished) == ~finished

\* a dealer who takes the ties
BJOutcome_TieLoses(pval, dval, current_bet, edge) ==
  IF dval > 21 \/ pval > dval THEN Payout(current_bet, 200, edge)
  ELSE -current_bet

\* the delta stand and double hand to finish()
BJOutcome(pval, dval, current_bet, edge) ==
  IF dval > 21 \/ pval > dval THEN Payout(current_bet, 200, edge)
  ELSE IF pval = dval THEN 0
  ELSE -current_bet

\* blackjack_cmd up to its await: the checks, the deal, the view (the model
\* follows one round)
BJStart(g, u, bet, p1, p2, d1, d2) ==
  /\ bj.pc = "idle"
  /\ ops' = ops + 1
  /\ bj' = IF BetCheck(g, u, bet) # "ok"
             THEN [BJIdle EXCEPT !.pc = "refused", !.g = g, !.u = u,
                                 !.out = BetCheck(g, u, bet)]
             ELSE [BJIdle EXCEPT !.pc = "sending", !.g = g, !.u = u, !.bet = bet,
                                 !.edge = _limits(g)[3], !.current_bet = bet,
                                 !.player = <<p1, p2>>, !.dealer = <<d1, d2>>]
  /\ UNCHANGED <<ledger, gameFrame, grant, crash>>

\* send_message(embed, view=BJView()) completes: the buttons are live
BJSent ==
  /\ bj.pc = "sending"
  /\ bj' = [bj EXCEPT !.pc = "open", !.attached = TRUE]
  /\ UNCHANGED <<ledger, gameFrame, ops, grant, crash>>

\* BJView.finish(inter, outcome, delta) up to its await, on the round b
BJFinish(b, delta) ==
  IF FinishSettles(b.finished)
    THEN /\ bj' = [b EXCEPT !.finished = TRUE, !.editing = TRUE, !.out = "settled",
                            !.deltas = Append(@, delta)]
         /\ balances' = BalancesAfterAdd(balances, b.g, b.u, delta)
         /\ sumDeltas' = SumAfter(sumDeltas, b.g, b.u, delta)
         /\ stats' = StatsAfterLog(StatsAfterAdd(stats, b.g, b.u, delta), b.g, b.u)
         /\ history' = HistoryAfterLog(history, b.g, b.u, "blackjack",
                                       b.current_bet, delta)
         /\ disk' = _save_json(disk,
              Dumped(balances', stats', history', settings, redeem, last_daily), TRUE)
    ELSE /\ bj' = [b EXCEPT !.out = "ignored"]
         /\ UNCHANGED ledger

\* a click on Hit by the member `clicker` (inter.user), whom hit() never
\* looks at
BJHitBy(clicker, card) ==
  /\ bj.attached
  /\ Len(bj.player) < MaxHand
  /\ LET b == [bj EXCEPT !.player = Append(@, card), !.clicker = clicker]
     IN  IF card_value(b.player) > 21
           THEN BJFinish(b, -b.current_bet)
           ELSE bj' = [b EXCEPT !.out = "hit"] /\ UNCHANGED ledger
  /\ UNCHANGED <<gameFrame, ops, grant, crash>>

\* a click on Hit where the round does not follow who clicks
BJHit(card) == BJHitBy(bj.clicker, card)

\* a click on Stand by the member `clicker`, whom stand() never looks at
BJStandBy(clicker, dealer) ==
  /\ bj.attached
  /\ LET b == [bj EXCEPT !.dealer = dealer, !.clicker = clicker]
     IN  BJFinish(b, BJOutcome(card_value(b.player), card_value(b.dealer),
                               b.current_bet, b.edge))
  /\ UNCHANGED <<gameFrame, ops, grant, crash>>

\* a click on Stand where the round does not follow who clicks
BJStand(dealer) == BJStandBy(bj.clicker, dealer)

\* a Double that raises the bet threefold
DoubledBet_Triple(current_bet) == 3 * current_bet

\* self.current_bet *= 2
DoubledBet(current_bet) == 2 * current_bet

\* a click on Double by the member `clicker`, written to the round as `seen`
BJDoubleSeen(clicker, seen, card, dealer) ==
  /\ bj.attached
  /\ IF eco_get(bj.g, clicker) < bj.current_bet
       THEN /\ bj' = [bj EXCEPT !.out = "cannot double", !.clicker = seen]
            /\ UNCHANGED ledger
       ELSE /\ Len(bj.player) < MaxHand
            /\ LET b == [bj EXCEPT !.current_bet = DoubledBet(@),
                                   !.player = Append(@, card), !.dealer = dealer,
                                   !.clicker = seen]
               IN  IF card_value(b.player) > 21
                     THEN BJFinish(b, -b.current_bet)
                     ELSE BJFinish(b, BJOutcome(card_value(b.player),
                                     card_value(b.dealer), b.current_bet, b.edge))
  /\ UNCHANGED <<gameFrame, ops, grant, crash>>

\* a click on Double where the round does not follow who clicks
BJDouble(clicker, card, dealer) == BJDoubleSeen(clicker, bj.clicker, card, dealer)

\* a click on Double by the member `clicker`, followed by the round
BJDoubleBy(clicker, card, dealer) == BJDoubleSeen(clicker, clicker, card, dealer)

\* inter.response.edit_message(embed, view=self) of finish() completes
BJResultEdited ==
  /\ bj.editing
  /\ bj' = [bj EXCEPT !.editing = FALSE]
  /\ UNCHANGED <<ledger, gameFrame, ops, grant, crash>>

\* the view's timeout (90 s without a click) stops it; BJView has no on_timeout
BJViewTimeout ==
  /\ bj.attached
  /\ bj' = [bj EXCEPT !.attached = FALSE]
  /\ UNCHANGED <<ledger, gameFrame, ops, grant, crash>>

Blackjack ==
  \/ \E g \in Guilds, u \in Players, bet \in BJBets,
        p1 \in DrawRanks, p2 \in DrawRanks, d1 \in DrawRanks, d2 \in DrawRanks :
       BJStart(g, u, bet, p1, p2, d1, d2)
  \/ BJSent
  \/ \E card \in DrawRanks : BJHit(card)
  \/ \E dealer \in DealerPlay(bj.dealer) : BJStand(dealer)
  \/ \E clicker \in Users, card \in DrawRanks, dealer \in DealerPlay(bj.dealer) :
       BJDouble(clicker, card, dealer)
  \/ BJResultEdited
  \/ BJViewTimeout

NextBlackjack == Blackjack

\* a round of u1 whose buttons every member of the channel can click
ClicksStart ==
  \E bet \in BJBets, p1 \in DrawRanks, p2 \in DrawRanks, d1 \in DrawRanks,
     d2 \in DrawRanks :
    BJStart("G1", "u1", bet, p1, p2, d1, d2)
ClicksSent == BJSent
ClicksHit == \E clicker \in Users, card \in DrawRanks : BJHitBy(clicker, card)
ClicksStand ==
  \E clicker \in Users, dealer \in DealerPlay(bj.dealer) : BJStandBy(clicker, dealer)
ClicksDouble ==
  \E clicker \in Users, card \in DrawRanks, dealer \in DealerPlay(bj.dealer) :
    BJDoubleBy(clicker, card, dealer)
ClicksEdited == BJResultEdited

NextClicks ==
  \/ ClicksStart
  \/ ClicksSent
  \/ ClicksHit
  \/ ClicksStand
  \/ ClicksDouble
  \/ ClicksEdited

SpecClicks == Init /\ [][NextClicks]_vars

\* rounds dealt from the whole shoe: every rank can be dealt to the player and
\* drawn by Hit
HandsStart == \E p1 \in Ranks, p2 \in Ranks, d1 \in {"7"}, d2 \in {"K"} :
                BJStart("G1", "u1", 20, p1, p2, d1, d2)
HandsSent == BJSent
HandsHit == \E card \in Ranks : BJHit(card)
HandsStand == \E dealer \in DealerPlay(bj.dealer) : ~bj.finished /\ BJStand(dealer)

NextHands == HandsStart \/ HandsSent \/ HandsHit \/ HandsStand

SpecHands == Init /\ [][NextHands]_vars

SpecBlackjack == Init /\ [][NextBlackjack]_vars

\* ---------------------------------------------------------------- redeem
Range(f) == {f[i] : i \in DOMAIN f}

Only(opt) == CHOOSE x \in opt : TRUE

\* list(a set): its elements once each, in an order the set type picks
Listings(S) == {q \in [1..Cardinality(S) -> S] : Range(q) = S}

\* `exp and now > exp` with the comparison turned round
IsExpired_Inverted(entry, t) == entry.expires # 0 /\ t < entry.expires

\* exp = int(entry.get("expires", 0)); exp and now > exp
IsExpired(entry, t) == entry.expires # 0 /\ t > entry.expires

\* uses > max_uses instead of uses >= max_uses
IsExhausted_OffByOne(entry) == entry.uses > entry.max_uses

\* int(entry.get("uses", 0)) >= int(entry.get("max_uses", 1))
IsExhausted(entry) == entry.uses >= entry.max_uses

\* the max-uses check made before the claimant check
RedeemReason_ExhaustedFirst(bucket, code, user, t) ==
  IF code \notin DOMAIN bucket THEN "NotFound"
  ELSE IF bucket[code].disabled THEN "Disabled"
  ELSE IF IsExpired(bucket[code], t) THEN "Expired"
  ELSE IF IsExhausted(bucket[code]) THEN "Exhausted"
  ELSE IF user \in Range(bucket[code].claimed_by) THEN "AlreadyClaimed"
  ELSE "OK"

\* the early returns of redeem_cmd, in their order
RedeemReason(bucket, code, user, t) ==
  IF code \notin DOMAIN bucket THEN "NotFound"
  ELSE IF bucket[code].disabled THEN "Disabled"
  ELSE IF IsExpired(bucket[code], t) THEN "Expired"
  ELSE IF user \in Range(bucket[code].claimed_by) THEN "AlreadyClaimed"
  ELSE IF IsExhausted(bucket[code]) THEN "Exhausted"
  ELSE "OK"

\* the max-uses message sent without returning
RedeemProceeds_PastExhausted(reason) == reason \in {"OK", "Exhausted"}

\* redeem_cmd reaches `# apply` when no early return was taken
RedeemProceeds(reason) == reason = "OK"

\* the claimant not recorded
RedeemedEntry_NoClaimant(entry, user, order) == [entry EXCEPT !.uses = @ + 1]

\* the use not counted
RedeemedEntry_NoCount(entry, user, order) == [entry EXCEPT !.claimed_by = order]

\* entry["uses"] += 1; entry["claimed_by"] = list(used_by | {user})
RedeemedEntry(entry, user, order) ==
  [entry EXCEPT !.uses = @ + 1, !.claimed_by = order]

\* redeem_cmd up to its await
RedeemCall(h, g, user, code) ==
  /\ rd[h].pc = "idle"
  /\ ops < MaxRedeemOps
  /\ ops' = ops + 1
  /\ LET reason == RedeemReason(redeem[g], code, user, now)
     IN  IF RedeemProceeds(reason) /\ code \in DOMAIN redeem[g]
           THEN \E order \in Listings(Range(redeem[g][code].claimed_by) \cup {user}) :
                  LET entry == redeem[g][code]
                  IN  /\ balances' = BalancesAfterAdd(balances, g, user, entry.amount)
                      /\ sumDeltas' = SumAfter(sumDeltas, g, user, entry.amount)
                      /\ stats' = StatsAfterAdd(stats, g, user, entry.amount)
                      /\ redeem' = [redeem EXCEPT ![g][code] =
                                      RedeemedEntry(entry, user, order)]
                      /\ redeemed' = [redeemed EXCEPT ![g][code][user] = @ + 1]
                      /\ lastFill' =
                           IF redeem'[g][code].uses = redeem'[g][code].max_uses
                             THEN [on |-> TRUE, g |-> g, code |-> code, user |-> user]
                             ELSE IF lastFill.g = g /\ lastFill.code = code
                               THEN NoFill ELSE lastFill
                      /\ disk' = _save_json(disk,
                           Dumped(balances', stats', history, settings, redeem', last_daily), TRUE)
                      /\ rd' = [rd EXCEPT ![h] =
                           [pc |-> "reply", g |-> g, user |-> user, code |-> code,
                            out |-> reason, new_bal |-> balances'[g][user]]]
           ELSE /\ rd' = [rd EXCEPT ![h] =
                     [pc |-> "reply", g |-> g, user |-> user, code |-> code,
                      out |-> reason, new_bal |-> 0]]
                /\ lastFill' = IF lastFill.g = g /\ lastFill.code = code
                                 THEN NoFill ELSE lastFill
                /\ UNCHANGED <<balances, sumDeltas, stats, redeem, redeemed, disk>>
  /\ UNCHANGED <<redeemFrame, now, ticks, last_cmd>>

\* the send_message of redeem_cmd completes
RedeemReplied(h) ==
  /\ rd[h].pc = "reply"
  /\ rd' = [rd EXCEPT ![h] = RedeemIdle]
  /\ UNCHANGED <<redeemFrame, balances, sumDeltas, stats, redeem, redeemed,
                 lastFill, now, ticks, ops, disk, last_cmd>>

\* exp of redeem_create: `if expires_minutes and int(expires_minutes) > 0`
CreateExpires(expires_minutes, t) ==
  IF expires_minutes # {} /\ Only(expires_minutes) # 0 /\ Only(expires_minutes) > 0
    THEN t + Only(expires_minutes) * SecondsPerMinute ELSE 0

\* redeem_create, past banker_only
RedeemCreate(g, code, amount, max_uses, expires_minutes) ==
  /\ ops < MaxRedeemOps
  /\ ops' = ops + 1
  /\ IF code \in DOMAIN redeem[g]
       THEN UNCHANGED <<redeem, redeemed, lastFill, disk>>
       ELSE /\ redeem' = [redeem EXCEPT ![g] = Put(@, code,
                 [amount |-> amount, max_uses |-> max_uses, uses |-> 0,
                  expires |-> CreateExpires(expires_minutes, now),
                  claimed_by |-> <<>>, disabled |-> FALSE])]
            /\ redeemed' = [redeemed EXCEPT ![g][code] = [u \in Users |-> 0]]
            /\ lastFill' = IF lastFill.g = g /\ lastFill.code = code
                             THEN NoFill ELSE lastFill
            /\ disk' = _save_json(disk,
                 Dumped(balances, stats, history, settings, redeem', last_daily), TRUE)
  /\ UNCHANGED <<redeemFrame, balances, sumDeltas, stats, rd, now, ticks>>

\* e["expires"] of redeem_edit
EditExpires(e, expires_minutes, t) ==
  IF expires_minutes = {} THEN e.expires
  ELSE IF Only(expires_minutes) = 0 THEN 0
  ELSE t + Only(expires_minutes) * SecondsPerMinute

\* redeem_edit, past banker_only
RedeemEdit(g, code, amount, max_uses, expires_minutes, disable) ==
  /\ ops < MaxRedeemOps
  /\ ops' = ops + 1
  /\ IF code \notin DOMAIN redeem[g]
       THEN UNCHANGED <<redeem, lastFill, disk>>
       ELSE /\ redeem' = [redeem EXCEPT ![g][code] =
                 [@ EXCEPT
                    !.amount = IF amount = {} THEN @ ELSE Only(amount),
                    !.max_uses = IF max_uses = {} THEN @ ELSE Only(max_uses),
                    !.expires = EditExpires(redeem[g][code], expires_minutes, now),
                    !.disabled = IF disable = {} THEN @ ELSE Only(disable)]]
            /\ lastFill' = IF lastFill.g = g /\ lastFill.code = code
                             THEN NoFill ELSE lastFill
            /\ disk' = _save_json(disk,
                 Dumped(balances, stats, history, settings, redeem', last_daily), TRUE)
  /\ UNCHANGED <<redeemFrame, balances, sumDeltas, stats, rd, redeemed, now, ticks>>

\* redeem_delete, past banker_only
RedeemDelete(g, code) ==
  /\ ops < MaxRedeemOps
  /\ ops' = ops + 1
  /\ IF code \notin DOMAIN redeem[g]
       THEN UNCHANGED <<redeem, lastFill, disk>>
       ELSE /\ redeem' = [redeem EXCEPT ![g] =
                 [c \in (DOMAIN @) \ {code} |-> @[c]]]
            /\ lastFill' = IF lastFill.g = g /\ lastFill.code = code
                             THEN NoFill ELSE lastFill
            /\ disk' = _save_json(disk,
                 Dumped(balances, stats, history, settings, redeem', last_daily), TRUE)
  /\ UNCHANGED <<redeemFrame, balances, sumDeltas, stats, rd, redeemed, now, ticks>>

\* time passes: _now_ts() grows
Tick ==
  /\ ticks < MaxTicks
  /\ ticks' = ticks + 1
  /\ now' = now + TickSecs
  /\ UNCHANGED <<redeemFrame, balances, sumDeltas, stats, redeem, rd, redeemed,
                 lastFill, ops, disk, last_cmd>>

Redeem ==
  \/ \E h \in Handlers, g \in Guilds, user \in Users, code \in Codes :
       RedeemCall(h, g, user, code)
  \/ \E h \in Handlers : RedeemReplied(h)

RedeemCreateAny ==
  \E g \in Guilds, code \in Codes, amount \in CodeAmounts,
     max_uses \in MaxUsesInputs, expires_minutes \in CreateExpiresInputs :
    /\ RedeemCreate(g, code, amount, max_uses, expires_minutes)
    /\ UNCHANGED last_cmd

RedeemEditAny ==
  \E g \in Guilds, code \in Codes, amount \in EditAmountInputs,
     max_uses \in EditMaxUsesInputs, expires_minutes \in EditExpiresInputs,
     disable \in EditDisableInputs :
    /\ RedeemEdit(g, code, amount, max_uses, expires_minutes, disable)
    /\ UNCHANGED last_cmd

RedeemDeleteAny ==
  \E g \in Guilds, code \in Codes : RedeemDelete(g, code) /\ UNCHANGED last_cmd

NextRedeem == Redeem \/ RedeemCreateAny \/ RedeemEditAny \/ RedeemDeleteAny \/ Tick

SpecRedeem == Init /\ [][NextRedeem]_vars

\* the redeem engine with no /redeemadmin edit
NextRedeemNoEdit == Redeem \/ RedeemCreateAny \/ RedeemDeleteAny \/ Tick

SpecRedeemNoEdit == Init /\ [][NextRedeemNoEdit]_vars

\* ---------------------------------------------------------------- checks
\* _get_gambling_channel_id: `int(val) if val else None`
_get_gambling_channel_id(g) == guild_setting(g, "GAMBLING_CHANNEL_ID")

\* a channel check that lets every channel through
in_gambling_channel_open(g, channel) == TRUE

\* the predicate of in_gambling_channel(): FALSE where it raises CheckFailure
in_gambling_channel(g, channel) ==
  \/ _get_gambling_channel_id(g) = None
  \/ channel = _get_gambling_channel_id(g)

\* bet limits that are never tested
WithinLimits_Unchecked(g, bet) == TRUE

\* min_bet <= bet <= max_bet
WithinLimits(g, bet) == _limits(g)[1] <= bet /\ bet <= _limits(g)[2]

\* the early returns of coinflip_cmd, in their order, or "ok"
CoinflipCheck(g, u, channel, side, bet) ==
  IF ~in_gambling_channel(g, channel) THEN "channel"
  ELSE IF ~guild_setting(g, "GAMBLING_ENABLED") THEN "disabled"
  ELSE IF side \notin Sides THEN "side"
  ELSE IF ~WithinLimits(g, bet) THEN "limits"
  ELSE IF eco_get(g, u) < bet THEN "insufficient"
  ELSE "ok"

\* the early returns of guess_cmd, in their order, or "ok"
GuessCheck(g, u, channel, range_max, guess, bet) ==
  IF ~in_gambling_channel(g, channel) THEN "channel"
  ELSE IF ~guild_setting(g, "GAMBLING_ENABLED") THEN "disabled"
  ELSE IF range_max \notin {3, 5, 10} THEN "range"
  ELSE IF ~(1 <= guess /\ guess <= range_max) THEN "guess"
  ELSE IF ~WithinLimits(g, bet) THEN "limits"
  ELSE IF eco_get(g, u) < bet THEN "insufficient"
  ELSE "ok"

\* ---------------------------------------------------------------- process
\* Steps finer than the segments above: the process can be killed between any
\* two statements, and a write of economy.json can raise.  A handler that is
\* between two statements of one segment (eco_add has returned, the statement
\* after it has not run) keeps every other handler from running.
InSegment ==
  \/ \E h \in WagerHandlers : wg[h].pc = "log"
  \/ \E h \in Handlers : rd[h].pc = "record"

\* an exception of _save_json that the caller swallows
AfterSave_Swallowed(ok, pc) == pc

\* where a handler stands after a _save_econ(): the exception of a failed write
\* is caught nowhere (the tree's error handler answers CheckFailure only)
AfterSave(ok, pc) == IF ok THEN pc ELSE "raised"

wagerFrame ==
  <<settings, redeem, now, ticks, bal0, jjk, auto, grant, crash, bj, rd, redeemed,
    lastFill, restarts, last_daily, dl, hl, last_cmd, trace>>

\* a wager command up to the return of eco_add: the verdict of its checks, then
\* eco_add(g, u, delta), whose write succeeds (ok) or raises; win is the branch
\* the handler took, pick and roll are the guess and the roll of dice_cmd
WagerCallWith(h, g, u, channel, game, bet, verdict, win, delta, ok, pick, roll) ==
  /\ wg[h].pc = "idle"
  /\ ~InSegment
  /\ ops < MaxWagers
  /\ ops' = ops + 1
  /\ IF verdict # "ok"
       THEN /\ wg' = [wg EXCEPT ![h] =
                 [WagerIdle EXCEPT !.pc = "reply", !.g = g, !.u = u,
                                   !.channel = channel, !.game = game,
                                   !.bet = bet, !.out = verdict]]
            /\ UNCHANGED ledger
       ELSE /\ balances' = BalancesAfterAdd(balances, g, u, delta)
            /\ sumDeltas' = SumAfter(sumDeltas, g, u, delta)
            /\ stats' = StatsAfterAdd(stats, g, u, delta)
            /\ disk' = _save_json(disk,
                 Dumped(balances', stats', history, settings, redeem, last_daily), ok)
            /\ wg' = [wg EXCEPT ![h] =
                 [pc |-> AfterSave(ok, "log"), g |-> g, u |-> u,
                  channel |-> channel, game |-> game, bet |-> bet, delta |-> delta,
                  new_bal |-> IF ok THEN balances'[g][u] ELSE 0,
                  out |-> "none", failed |-> ~ok, win |-> win,
                  pick |-> pick, roll |-> roll]]
            /\ UNCHANGED history
  /\ UNCHANGED wagerFrame

\* the wager commands that keep no guess and no roll
WagerCall(h, g, u, channel, game, bet, verdict, win, delta, ok) ==
  WagerCallWith(h, g, u, channel, game, bet, verdict, win, delta, ok, "none", 0)

\* a winning coinflip that pays the profit only
CoinflipDelta_Net(side, res, bet, edge) ==
  IF res = side THEN Payout(bet, 200, edge) - bet ELSE -bet

\* the delta of coinflip_cmd: int(round(bet * (2.0 - edge))) or -bet
CoinflipDelta(side, res, bet, edge) ==
  IF res = side THEN Payout(bet, 200, edge) ELSE -bet

\* the delta of guess_cmd: int(round(bet * (float(range_max) - edge))) or -bet
GuessDelta(range_max, guess, target, bet, edge) ==
  IF guess = target THEN Payout(bet, 100 * range_max, edge) ELSE -bet

\* coinflip_cmd up to the return of eco_add
CoinflipCall(h, g, u, channel, side, res, bet, ok) ==
  WagerCall(h, g, u, channel, "coinflip", bet,
            CoinflipCheck(g, u, channel, side, bet), res = side,
            CoinflipDelta(side, res, bet, _limits(g)[3]), ok)

\* guess_cmd up to the return of eco_add
GuessCall(h, g, u, channel, range_max, guess, target, bet, ok) ==
  WagerCall(h, g, u, channel, "guess", bet,
            GuessCheck(g, u, channel, range_max, guess, bet), guess = target,
            GuessDelta(range_max, guess, target, bet, _limits(g)[3]), ok)

\* log_history(g, u, game, bet, delta) of a wager, whose write succeeds or raises
WagerLog(h, ok) ==
  /\ wg[h].pc = "log"
  /\ history' = HistoryAfterLog(history, wg[h].g, wg[h].u, wg[h].game,
                                wg[h].bet, wg[h].delta)
  /\ stats' = StatsAfterLog(stats, wg[h].g, wg[h].u)
  /\ disk' = _save_json(disk,
       Dumped(balances, stats', history', settings, redeem, last_daily), ok)
  /\ wg' = [wg EXCEPT ![h].pc = AfterSave(ok, "reply"),
                      ![h].out = IF AfterSave(ok, "reply") # "reply" THEN "none"
                                 ELSE IF wg[h].win THEN "won" ELSE "lost"]
  /\ UNCHANGED <<wagerFrame, balances, sumDeltas, ops>>

\* the send_message of a wager command completes
WagerReplied(h) ==
  /\ wg[h].pc = "reply"
  /\ wg' = [wg EXCEPT ![h] = WagerIdle]
  /\ UNCHANGED <<wagerFrame, ledger, ops>>

\* gambling_settings_cmd, past has_permissions, with enabled, min_bet, channel,
\* clear_channel, banker_role and clear_banker_role (the other arguments left
\* out): one set_guild_setting, and so one save, per argument given
GamblingSettings(g, enabled, min_bet, channel, clear_channel, banker_role, clear_banker_role) ==
  /\ ~InSegment
  /\ LET s1 == IF enabled = {} THEN settings
               ELSE set_guild_setting(settings, g, "GAMBLING_ENABLED", Only(enabled))
         s2 == IF min_bet = {} THEN s1
               ELSE set_guild_setting(s1, g, "MIN_BET", Only(min_bet))
         s3 == IF channel = {} THEN s2
               ELSE set_guild_setting(s2, g, "GAMBLING_CHANNEL_ID", Only(channel))
         s4 == IF clear_channel = {TRUE}
                 THEN set_guild_setting(s3, g, "GAMBLING_CHANNEL_ID", None) ELSE s3
         s5 == IF banker_role = {} THEN s4
               ELSE set_guild_setting(s4, g, "BANKER_ROLE_ID", Only(banker_role))
         s6 == IF clear_banker_role = {TRUE}
                 THEN set_guild_setting(s5, g, "BANKER_ROLE_ID", None) ELSE s5
         written ==
           (IF enabled = {} THEN {} ELSE {"GAMBLING_ENABLED"})
             \cup (IF min_bet = {} THEN {} ELSE {"MIN_BET"})
             \cup (IF channel = {} /\ clear_channel # {TRUE}
                     THEN {} ELSE {"GAMBLING_CHANNEL_ID"})
             \cup (IF banker_role = {} /\ clear_banker_role # {TRUE}
                     THEN {} ELSE {"BANKER_ROLE_ID"})
     IN  /\ settings' = s6
         /\ disk' = IF written = {}
                      THEN disk
                      ELSE _save_json(disk,
                             Dumped(balances, stats, history, settings', redeem,
                                    last_daily), TRUE)
         /\ last_cmd' = [NoCmd EXCEPT !.cmd = "gambling_settings", !.g = g,
                                      !.manage_guild = TRUE, !.keys = written]
  /\ UNCHANGED <<balances, stats, history, sumDeltas, redeem, now, ticks, ops,
                 bal0, jjk, auto, grant, crash, bj, rd, redeemed, lastFill, wg, restarts,
                 last_daily, dl, hl, trace>>

\* the process is killed and started again: ECON is loaded from economy.json,
\* every handler and every view is gone
ProcessCrash ==
  /\ restarts < MaxRestarts
  /\ restarts' = restarts + 1
  /\ balances' = disk.balances
  /\ stats' = disk.stats
  /\ history' = disk.history
  /\ settings' = disk.settings
  /\ redeem' = disk.redeem
  /\ grant' = [h \in Handlers |-> GrantIdle]
  /\ crash' = CrashIdle
  /\ bj' = BJIdle
  /\ rd' = [h \in Handlers |-> RedeemIdle]
  /\ wg' = [h \in WagerHandlers |-> WagerIdle]
  /\ last_daily' = disk.last_daily
  /\ dl' = [h \in Handlers |-> DailyIdle]
  /\ hl' = HiLoIdle
  /\ UNCHANGED <<disk, now, ticks, ops, bal0, jjk, auto, sumDeltas, redeemed, lastFill,
                 last_cmd, trace>>

Wager ==
  \/ \E h \in WagerHandlers, g \in Guilds, u \in Players, channel \in Channels,
        side \in SideInputs, res \in Sides, bet \in WagerBets, ok \in BOOLEAN :
       CoinflipCall(h, g, u, channel, side, res, bet, ok)
  \/ \E h \in WagerHandlers, g \in Guilds, u \in Players, channel \in Channels,
        range_max \in RangeInputs, guess \in GuessInputs, target \in Targets,
        bet \in WagerBets, ok \in BOOLEAN :
       GuessCall(h, g, u, channel, range_max, guess, target, bet, ok)
  \/ \E h \in WagerHandlers, ok \in BOOLEAN : WagerLog(h, ok)
  \/ \E h \in WagerHandlers : WagerReplied(h)

GamblingSettingsAny ==
  \E g \in Guilds, enabled \in EnabledInputs, channel \in ChannelInputs,
     clear_channel \in ClearChannelInputs :
    GamblingSettings(g, enabled, {}, channel, clear_channel, {}, {})

NextWager == Wager \/ GamblingSettingsAny \/ ProcessCrash

SpecWager == Init /\ [][NextWager]_vars

\* redeem_cmd up to the return of eco_add: the early returns, then
\* eco_add(g, user, amount), whose write succeeds (ok) or raises; the handler
\* takes the first free slot
RedeemCredit(h, g, user, code, ok) ==
  /\ rd[h].pc = "idle"
  /\ \A h2 \in Handlers : h2 < h => rd[h2].pc # "idle"
  /\ ~InSegment
  /\ ops < MaxRedeemOps
  /\ ops' = ops + 1
  /\ LET reason == RedeemReason(redeem[g], code, user, now)
     IN  IF RedeemProceeds(reason) /\ code \in DOMAIN redeem[g]
           THEN /\ balances' = BalancesAfterAdd(balances, g, user, redeem[g][code].amount)
                /\ sumDeltas' = SumAfter(sumDeltas, g, user, redeem[g][code].amount)
                /\ stats' = StatsAfterAdd(stats, g, user, redeem[g][code].amount)
                /\ disk' = _save_json(disk,
                     Dumped(balances', stats', history, settings, redeem, last_daily), ok)
                /\ rd' = [rd EXCEPT ![h] =
                     [pc |-> AfterSave(ok, "record"), g |-> g, user |-> user,
                      code |-> code, out |-> "none",
                      new_bal |-> IF ok THEN balances'[g][user] ELSE 0]]
           ELSE /\ rd' = [rd EXCEPT ![h] =
                     [pc |-> "reply", g |-> g, user |-> user, code |-> code,
                      out |-> reason, new_bal |-> 0]]
                /\ UNCHANGED <<balances, sumDeltas, stats, disk>>
  /\ UNCHANGED <<redeemFrame, redeem, redeemed, lastFill, now, ticks, last_cmd>>

\* the rest of redeem_cmd up to its await: uses and claimed_by of the entry,
\* then _save_econ(), which succeeds (ok) or raises
RedeemRecord(h, order, ok) ==
  /\ rd[h].pc = "record"
  /\ order \in Listings(Range(redeem[rd[h].g][rd[h].code].claimed_by)
                          \cup {rd[h].user})
  /\ redeem' = [redeem EXCEPT ![rd[h].g][rd[h].code] =
                  RedeemedEntry(@, rd[h].user, order)]
  /\ redeemed' = [redeemed EXCEPT ![rd[h].g][rd[h].code][rd[h].user] = @ + 1]
  /\ disk' = _save_json(disk,
       Dumped(balances, stats, history, settings, redeem', last_daily), ok)
  /\ rd' = [rd EXCEPT ![h].pc = AfterSave(ok, "reply"),
                      ![h].out = IF AfterSave(ok, "reply") = "reply"
                                   THEN "OK" ELSE "none"]
  /\ UNCHANGED <<redeemFrame, balances, sumDeltas, stats, lastFill, now, ticks,
                 ops, last_cmd>>

\* the claimant lists a handler may write
Orders == UNION {Listings(S) : S \in (SUBSET Users) \ {{}}}

RedeemBySteps ==
  \/ \E h \in Handlers, g \in Guilds, user \in Users, code \in Codes,
        ok \in BOOLEAN :
       RedeemCredit(h, g, user, code, ok)
  \/ \E h \in Handlers, order \in Orders, ok \in BOOLEAN :
       RedeemRecord(h, order, ok)
  \/ \E h \in Handlers : RedeemReplied(h)

NextRedeemDurable ==
  \/ RedeemBySteps
  \/ ~InSegment /\ RedeemCreateAny
  \/ ProcessCrash

SpecRedeemDurable == Init /\ [][NextRedeemDurable]_vars

\* ---------------------------------------------------------------- bankers
\* the predicate of banker_only(): FALSE where it raises CheckFailure and the
\* command body does not run
banker_only(g, manage_guild, roles) == user_is_banker(g, manage_guild, roles)

\* what a /redeemadmin command turned down by banker_only leaves alone
adminFrame ==
  <<redeemFrame, balances, sumDeltas, stats, redeem, rd, redeemed, lastFill, now,
    ticks, ops, disk>>

\* /redeemadmin create by a member with the given permission and roles
RedeemCreateCmd(g, manage_guild, roles, code, amount, max_uses, expires_minutes) ==
  /\ last_cmd' = [NoCmd EXCEPT !.cmd = "redeemadmin create", !.g = g,
                                !.manage_guild = manage_guild, !.roles = roles]
  /\ IF banker_only(g, manage_guild, roles)
       THEN RedeemCreate(g, code, amount, max_uses, expires_minutes)
       ELSE UNCHANGED adminFrame

\* /redeemadmin edit by a member with the given permission and roles
RedeemEditCmd(g, manage_guild, roles, code, amount, max_uses, expires_minutes, disable) ==
  /\ last_cmd' = [NoCmd EXCEPT !.cmd = "redeemadmin edit", !.g = g,
                                !.manage_guild = manage_guild, !.roles = roles]
  /\ IF banker_only(g, manage_guild, roles)
       THEN RedeemEdit(g, code, amount, max_uses, expires_minutes, disable)
       ELSE UNCHANGED adminFrame

\* /redeemadmin delete by a member with the given permission and roles
RedeemDeleteCmd(g, manage_guild, roles, code) ==
  /\ last_cmd' = [NoCmd EXCEPT !.cmd = "redeemadmin delete", !.g = g,
                                !.manage_guild = manage_guild, !.roles = roles]
  /\ IF banker_only(g, manage_guild, roles)
       THEN RedeemDelete(g, code)
       ELSE UNCHANGED adminFrame

GrantByMember ==
  \/ \E h \in Handlers, g \in Guilds, caller \in Admins,
        manage_guild \in BOOLEAN, roles \in RoleSets, user \in Players,
        amount \in GrantAmounts :
       GrantCall(h, g, caller, manage_guild, roles, user, amount)
  \/ \E h \in Handlers : GrantReplied(h)

\* the /redeemadmin commands by any member: single-use codes without expiry,
\* edits of the amount
RedeemAdminByMember ==
  \/ \E g \in Guilds, manage_guild \in BOOLEAN, roles \in RoleSets,
        code \in Codes, amount \in CodeAmounts, max_uses \in {1},
        expires_minutes \in {{}} :
       RedeemCreateCmd(g, manage_guild, roles, code, amount, max_uses,
                       expires_minutes)
  \/ \E g \in Guilds, manage_guild \in BOOLEAN, roles \in RoleSets,
        code \in Codes, amount \in EditAmountInputs, max_uses \in {{}},
        expires_minutes \in {{}}, disable \in {{}} :
       RedeemEditCmd(g, manage_guild, roles, code, amount, max_uses,
                     expires_minutes, disable)
  \/ \E g \in Guilds, manage_guild \in BOOLEAN, roles \in RoleSets,
        code \in Codes :
       RedeemDeleteCmd(g, manage_guild, roles, code)

\* /gambling_settings with banker_role or clear_banker_role
BankerSettingsAny ==
  \E g \in Guilds, banker_role \in BankerRoleInputs,
     clear_banker_role \in ClearBankerRoleInputs :
    GamblingSettings(g, {}, {}, {}, {}, banker_role, clear_banker_role)

NextBanker == GrantByMember \/ RedeemAdminByMember \/ BankerSettingsAny

SpecBanker == Init /\ [][NextBanker]_vars

\* ---------------------------------------------------------------- daily
\* 23*3600 + 30*60
DAILY_COOLDOWN == 23 * 3600 + 30 * 60

\* a cooldown that is never tested
DailyDue_Always(t, last) == TRUE

\* `if now - last < 23*3600 + 30*60` sends "already claimed"
DailyDue(t, last) == ~(t - last < DAILY_COOLDOWN)

\* the early returns of daily_cmd, in their order, or "ok"
DailyCheck(g, u, channel) ==
  IF ~in_gambling_channel(g, channel) THEN "channel"
  ELSE IF ~guild_setting(g, "GAMBLING_ENABLED") THEN "disabled"
  ELSE IF ~DailyDue(now, Get(last_daily[g], u, 0)) THEN "already"
  ELSE "ok"

\* what daily_cmd never writes
dailyFrame ==
  <<history, settings, redeem, bal0, jjk, auto, grant, crash, bj, rd, redeemed, lastFill,
    wg, restarts, hl, last_cmd>>

\* daily_cmd up to its await: the checks, ECON["last_daily"][g][u] = now, eco_add
DailyCall(h, g, u, channel) ==
  /\ dl[h].pc = "idle"
  /\ ops < MaxClaims
  /\ ops' = ops + 1
  /\ IF DailyCheck(g, u, channel) # "ok"
       THEN /\ dl' = [dl EXCEPT ![h] =
                 [DailyIdle EXCEPT !.pc = "reply", !.g = g, !.u = u, !.at = now,
                                   !.last = Get(last_daily[g], u, 0),
                                   !.out = DailyCheck(g, u, channel)]]
            /\ UNCHANGED <<balances, stats, sumDeltas, disk, last_daily, trace>>
       ELSE /\ last_daily' = [last_daily EXCEPT ![g] = Put(@, u, now)]
            /\ balances' = BalancesAfterAdd(balances, g, u, _limits(g)[4])
            /\ sumDeltas' = SumAfter(sumDeltas, g, u, _limits(g)[4])
            /\ stats' = StatsAfterAdd(stats, g, u, _limits(g)[4])
            /\ disk' = _save_json(disk,
                 Dumped(balances', stats', history, settings, redeem, last_daily'),
                 TRUE)
            /\ trace' = [trace EXCEPT ![g][u].claims = Append(@, now)]
            /\ dl' = [dl EXCEPT ![h] =
                 [pc |-> "reply", g |-> g, u |-> u, at |-> now,
                  last |-> Get(last_daily[g], u, 0), amount |-> _limits(g)[4],
                  out |-> "received"]]
  /\ UNCHANGED <<dailyFrame, now, ticks>>

\* the send_message of daily_cmd completes
DailyReplied(h) ==
  /\ dl[h].pc = "reply"
  /\ dl' = [dl EXCEPT ![h] = DailyIdle]
  /\ UNCHANGED <<dailyFrame, now, ticks, ops, balances, stats, sumDeltas, disk,
                 last_daily, trace>>

\* time passes: _now_ts() grows by d seconds
DayPasses(d) ==
  /\ ticks < MaxTicks
  /\ ticks' = ticks + 1
  /\ now' = now + d
  /\ UNCHANGED <<dailyFrame, ops, balances, stats, sumDeltas, disk, last_daily,
                 trace, dl>>

Daily ==
  \/ \E h \in Handlers, g \in Guilds, u \in Users, channel \in Channels :
       DailyCall(h, g, u, channel)
  \/ \E h \in Handlers : DailyReplied(h)

DayPassesAny == \E d \in DaySteps : DayPasses(d)

NextDaily == Daily \/ DayPassesAny

SpecDaily == Init /\ [][NextDaily]_vars

\* ---------------------------------------------------------------- direct calls
\* eco_add and log_history called one at a time on one account, from a store
\* whose history of that account holds n entries

\* the history n hi-lo pushes leave, one a second: a push logs its bet with
\* result 0 and calls no eco_add
Pushes(n) ==
  [i \in 1..n |-> [t |-> i, game |-> "hilo", bet |-> MIN_BET, result |-> 0]]

LedgerInit ==
  /\ bal0 \in InitBalances
  /\ balances = [g \in AllGuilds |-> [u \in Users |-> bal0]]
  /\ \E n \in LoadedLens :
       /\ history = [g \in AllGuilds |->
            IF g \in Guilds /\ n > 0 THEN [u \in Players |-> Pushes(n)]
                                     ELSE EmptyMap]
       /\ stats = [g \in AllGuilds |->
            IF g \in Guilds /\ n > 0
              THEN [u \in Players |-> [NoStats EXCEPT !.bets = n]]
              ELSE EmptyMap]
       /\ trace = [g \in AllGuilds |-> [u \in Users |->
            IF g \in Guilds /\ u \in Players
              THEN [NoTrace EXCEPT !.entries = Pushes(n)] ELSE NoTrace]]
  /\ settings = [g \in AllGuilds |-> EmptyMap]
  /\ redeem = [g \in AllGuilds |-> EmptyMap]
  /\ last_daily = [g \in AllGuilds |-> EmptyMap]
  /\ now = StartTs
  /\ ticks = 0
  /\ ops = 0
  /\ sumDeltas = [g \in AllGuilds |-> [u \in Users |-> 0]]
  /\ disk = Dumped(balances, stats, history, settings, redeem, last_daily)
  /\ restarts = 0
  /\ jjk = JJKIdle
  /\ auto = AutoIdle
  /\ grant = [h \in Handlers |-> GrantIdle]
  /\ crash = CrashIdle
  /\ bj = BJIdle
  /\ rd = [h \in Handlers |-> RedeemIdle]
  /\ redeemed = [g \in AllGuilds |-> [c \in Codes |-> [u \in Users |-> 0]]]
  /\ lastFill = NoFill
  /\ wg = [h \in WagerHandlers |-> WagerIdle]
  /\ dl = [h \in Handlers |-> DailyIdle]
  /\ hl = HiLoIdle
  /\ last_cmd = NoCmd

\* what neither eco_add nor log_history writes
ledgerFrame ==
  <<settings, redeem, now, ticks, bal0, jjk, auto, grant, crash, bj, rd, redeemed, lastFill,
    wg, restarts, last_daily, dl, hl, last_cmd>>

\* eco_add(g, u, delta)
EcoAdd(g, u, delta) ==
  /\ ops < MaxCalls
  /\ ops' = ops + 1
  /\ balances' = BalancesAfterAdd(balances, g, u, delta)
  /\ sumDeltas' = SumAfter(sumDeltas, g, u, delta)
  /\ stats' = StatsAfterAdd(stats, g, u, delta)
  /\ disk' = _save_json(disk,
       Dumped(balances', stats', history, settings, redeem, last_daily), TRUE)
  /\ trace' = [trace EXCEPT ![g][u].deltas = Append(@, delta)]
  /\ UNCHANGED <<history, ledgerFrame>>

\* log_history(g, u, game, bet, result)
LogHistory(g, u, game, bet, result) ==
  /\ ops < MaxCalls
  /\ ops' = ops + 1
  /\ history' = HistoryAfterLog(history, g, u, game, bet, result)
  /\ stats' = StatsAfterLog(stats, g, u)
  /\ disk' = _save_json(disk,
       Dumped(balances, stats', history', settings, redeem, last_daily), TRUE)
  /\ trace' = [trace EXCEPT ![g][u].entries =
       Append(@, [t |-> now, game |-> game, bet |-> bet, result |-> result])]
  /\ UNCHANGED <<balances, sumDeltas, ledgerFrame>>

NextLedger ==
  \/ \E g \in Guilds, u \in Players, delta \in LedgerDeltas : EcoAdd(g, u, delta)
  \/ \E g \in Guilds, u \in Players, result \in LogResults :
       LogHistory(g, u, "hilo", MIN_BET, result)

SpecLedger == LedgerInit /\ [][NextLedger]_vars

\* ---------------------------------------------------------------- hi-lo
\* a settle that takes a tie for a lower card
HiLoResult_TieLow(base_v, nxt_v) == IF nxt_v > base_v THEN "high" ELSE "low"

\* result of HiLoView.settle: "push" unless the next card is higher or lower
HiLoResult(base_v, nxt_v) ==
  IF nxt_v > base_v THEN "high" ELSE IF nxt_v < base_v THEN "low" ELSE "push"

\* what no hi-lo handler writes
hiloFrame ==
  <<settings, redeem, now, ticks, bal0, jjk, auto, rd, redeemed, lastFill, wg, restarts,
    last_daily, dl, last_cmd, trace, grant, crash, bj>>

\* hilo_cmd up to its await: the checks, the base card, the view (the model
\* follows one round)
HiLoStart(g, u, bet, base_v) ==
  /\ hl.pc = "idle"
  /\ ops' = ops + 1
  /\ hl' = IF BetCheck(g, u, bet) # "ok"
             THEN [HiLoIdle EXCEPT !.pc = "refused", !.g = g, !.u = u,
                                   !.out = BetCheck(g, u, bet)]
             ELSE [HiLoIdle EXCEPT !.pc = "sending", !.g = g, !.u = u, !.bet = bet,
                                   !.edge = _limits(g)[3], !.base_v = base_v]
  /\ UNCHANGED <<ledger, hiloFrame>>

\* send_message(content, view=HiLoView()) completes: the buttons are live
HiLoSent ==
  /\ hl.pc = "sending"
  /\ hl' = [hl EXCEPT !.pc = "open", !.attached = TRUE]
  /\ UNCHANGED <<ledger, hiloFrame, ops>>

\* a click on Higher or Lower: HiLoView.settle(inter, pick) up to its await
HiLoSettle(pick, nxt_v) ==
  /\ hl.attached
  /\ IF hl.done
       THEN hl' = [hl EXCEPT !.out = "ignored"] /\ UNCHANGED ledger
       ELSE LET result == HiLoResult(hl.base_v, nxt_v)
                win == Payout(hl.bet, 200, hl.edge)
                h0 == [hl EXCEPT !.done = TRUE, !.nxt_v = nxt_v, !.editing = TRUE]
            IN  IF result = pick
                  THEN /\ balances' = BalancesAfterAdd(balances, hl.g, hl.u, win)
                       /\ sumDeltas' = SumAfter(sumDeltas, hl.g, hl.u, win)
                       /\ stats' = StatsAfterLog(
                            StatsAfterAdd(stats, hl.g, hl.u, win), hl.g, hl.u)
                       /\ history' = HistoryAfterLog(history, hl.g, hl.u, "hilo",
                                                     hl.bet, win)
                       /\ disk' = _save_json(disk,
                            Dumped(balances', stats', history', settings, redeem,
                                   last_daily), TRUE)
                       /\ hl' = [h0 EXCEPT !.out = "win", !.deltas = Append(@, win)]
                ELSE IF result = "push"
                  THEN /\ history' = HistoryAfterLog(history, hl.g, hl.u, "hilo",
                                                     hl.bet, 0)
                       /\ stats' = StatsAfterLog(stats, hl.g, hl.u)
                       /\ disk' = _save_json(disk,
                            Dumped(balances, stats', history', settings, redeem,
                                   last_daily), TRUE)
                       /\ hl' = [h0 EXCEPT !.out = "push"]
                       /\ UNCHANGED <<balances, sumDeltas>>
                ELSE /\ balances' = BalancesAfterAdd(balances, hl.g, hl.u, -hl.bet)
                     /\ sumDeltas' = SumAfter(sumDeltas, hl.g, hl.u, -hl.bet)
                     /\ stats' = StatsAfterLog(
                          StatsAfterAdd(stats, hl.g, hl.u, -hl.bet), hl.g, hl.u)
                     /\ history' = HistoryAfterLog(history, hl.g, hl.u, "hilo",
                                                   hl.bet, -hl.bet)
                     /\ disk' = _save_json(disk,
                          Dumped(balances', stats', history', settings, redeem,
                                 last_daily), TRUE)
                     /\ hl' = [h0 EXCEPT !.out = "loss",
                                         !.deltas = Append(@, -hl.bet)]
  /\ UNCHANGED <<hiloFrame, ops>>

\* inter.response.edit_message(content, view=self) of settle() completes
HiLoEdited ==
  /\ hl.editing
  /\ hl' = [hl EXCEPT !.editing = FALSE]
  /\ UNCHANGED <<ledger, hiloFrame, ops>>

\* the view's timeout (30 s without a click) stops it; HiLoView has no on_timeout
HiLoViewTimeout ==
  /\ hl.attached
  /\ hl' = [hl EXCEPT !.attached = FALSE]
  /\ UNCHANGED <<ledger, hiloFrame, ops>>

HiLo ==
  \/ \E g \in Guilds, u \in Players, bet \in Bets, base_v \in CardValues :
       HiLoStart(g, u, bet, base_v)
  \/ HiLoSent
  \/ \E pick \in Picks, nxt_v \in CardValues : HiLoSettle(pick, nxt_v)
  \/ HiLoEdited
  \/ HiLoViewTimeout

\* one round of blackjack or one round of hi-lo
NextRounds ==
  \/ hl.pc = "idle" /\ Blackjack
  \/ bj.pc = "idle" /\ HiLo

SpecRounds == Init /\ [][NextRounds]_vars

\* ---------------------------------------------------------------- admin panel
\* what no button of the admin panel writes, settings and the file apart
panelFrame ==
  <<stats, history, sumDeltas, redeem, now, ticks, ops, bal0, jjk, auto, grant, crash, bj,
    rd, redeemed, lastFill, wg, restarts, last_daily, dl, hl, trace>>

\* a click on Toggle Gambling of the panel opened in guild g
PanelToggle(g) ==
  /\ ~InSegment
  /\ settings' = set_guild_setting(settings, g, "GAMBLING_ENABLED",
                                   ~guild_setting(g, "GAMBLING_ENABLED"))
  /\ disk' = _save_json(disk,
       Dumped(balances, stats, history, settings', redeem, last_daily), TRUE)
  /\ last_cmd' = [NoCmd EXCEPT !.cmd = "panel toggle", !.g = g,
                               !.keys = {"GAMBLING_ENABLED"}]
  /\ UNCHANGED <<panelFrame, balances>>

\* a click on Clear Channel Restriction
PanelClearChannel(g) ==
  /\ ~InSegment
  /\ settings' = set_guild_setting(settings, g, "GAMBLING_CHANNEL_ID", None)
  /\ disk' = _save_json(disk,
       Dumped(balances, stats, history, settings', redeem, last_daily), TRUE)
  /\ last_cmd' = [NoCmd EXCEPT !.cmd = "panel clearchan", !.g = g,
                               !.keys = {"GAMBLING_CHANNEL_ID"}]
  /\ UNCHANGED <<panelFrame, balances>>

\* LimitsModal.on_submit with the Min Bet field filled in and the other fields
\* left blank: int(self.min_bet_in.value) is stored as it is
LimitsSubmit(g, min_bet) ==
  /\ ~InSegment
  /\ settings' = IF min_bet = {} THEN settings
                 ELSE set_guild_setting(settings, g, "MIN_BET", Only(min_bet))
  /\ disk' = IF min_bet = {} THEN disk
             ELSE _save_json(disk,
                    Dumped(balances, stats, history, settings', redeem, last_daily),
                    TRUE)
  /\ last_cmd' = [NoCmd EXCEPT !.cmd = "panel limits", !.g = g,
                               !.keys = IF min_bet = {} THEN {} ELSE {"MIN_BET"}]
  /\ UNCHANGED <<panelFrame, balances>>

\* /gambling_settings in any guild, with enabled, min_bet, channel and
\* banker_role
SettingsAnyGuild ==
  \E g \in AllGuilds, enabled \in EnabledInputs, min_bet \in MinBetInputs,
     channel \in ChannelInputs, banker_role \in BankerRoleInputs :
    GamblingSettings(g, enabled, min_bet, channel, {}, banker_role, {})

PanelAnyGuild ==
  \/ \E g \in AllGuilds : PanelToggle(g)
  \/ \E g \in AllGuilds : PanelClearChannel(g)
  \/ \E g \in AllGuilds, min_bet \in MinBetInputs : LimitsSubmit(g, min_bet)

NextSettings == SettingsAnyGuild \/ PanelAnyGuild

SpecSettings == Init /\ [][NextSettings]_vars

\* ---------------------------------------------------------------- give
\* amounts typed into /give
GiveAmounts == {5}

\* accounts with user.bot set
Bots == {"bot1"}

\* a give_cmd that never looks at the sender's balance
GiveCheck_NoBalance(g, sender, user, channel, amount) ==
  IF ~in_gambling_channel(g, channel) THEN "channel"
  ELSE IF user \in Bots \/ user = sender THEN "recipient"
  ELSE IF amount <= 0 THEN "amount"
  ELSE "ok"

\* the early returns of give_cmd, in their order, or "ok" (the recipient is a
\* member or a bot)
GiveCheck(g, sender, user, channel, amount) ==
  IF ~in_gambling_channel(g, channel) THEN "channel"
  ELSE IF user \in Bots \/ user = sender THEN "recipient"
  ELSE IF amount <= 0 THEN "amount"
  ELSE IF eco_get(g, sender) < amount THEN "insufficient"
  ELSE "ok"

\* give_cmd: the checks, the two eco_add calls and the two log_history calls,
\* between which the handler is never suspended
Give(g, sender, user, channel, amount) ==
  /\ ops < MaxOps
  /\ ops' = ops + 1
  /\ last_cmd' = [NoCmd EXCEPT !.cmd = "give", !.g = g, !.sender = sender,
                               !.user = user, !.channel = channel,
                               !.amount = amount]
  /\ IF GiveCheck(g, sender, user, channel, amount) # "ok"
       THEN UNCHANGED ledger
       ELSE /\ balances' = BalancesAfterAdd(
                 BalancesAfterAdd(balances, g, sender, -amount), g, user, amount)
            /\ sumDeltas' = SumAfter(SumAfter(sumDeltas, g, sender, -amount),
                                     g, user, amount)
            /\ history' = HistoryAfterLog(
                 HistoryAfterLog(history, g, sender, "give", amount, -amount),
                 g, user, "give", amount, amount)
            /\ stats' = StatsAfterLog(
                 StatsAfterLog(
                   StatsAfterAdd(StatsAfterAdd(stats, g, sender, -amount),
                                 g, user, amount),
                   g, sender),
                 g, user)
            /\ disk' = _save_json(disk,
                 Dumped(balances', stats', history', settings, redeem, last_daily),
                 TRUE)
  /\ UNCHANGED <<settings, redeem, now, ticks, bal0, jjk, auto, grant, crash, bj, rd,
                 redeemed, lastFill, wg, restarts, last_daily, dl, hl, trace>>

\* gives racing on the accounts of one guild: each handler runs from its first
\* line to its send_message without a suspension, so the handlers interleave
\* as whole calls in any order
GivesAmounts == {-5, 0, 5, 20, 30}
GivesGive ==
  \E sender \in Users, user \in Users \cup Bots, amount \in GivesAmounts :
    ~InSegment /\ Give("G1", sender, user, "ch1", amount)

NextGives == GivesGive

SpecGives == Init /\ [][NextGives]_vars

\* a click on Reset Leaderboard of the panel opened in guild g:
\* ECON["balances"][g] = {}; _save_econ()
PanelResetLeaderboard(g) ==
  /\ ops < MaxOps
  /\ ops' = ops + 1
  /\ last_cmd' = [NoCmd EXCEPT !.cmd = "panel resetlb", !.g = g]
  /\ balances' = [balances EXCEPT ![g] = EmptyMap]
  /\ disk' = _save_json(disk,
       Dumped(balances', stats, history, settings, redeem, last_daily), TRUE)
  /\ trace' = [trace EXCEPT ![g] = [u \in Users |->
                                       [trace[g][u] EXCEPT !.reset = TRUE]]]
  /\ UNCHANGED <<stats, history, sumDeltas, settings, redeem, now, ticks, bal0, jjk, auto,
                 grant, crash, bj, rd, redeemed, lastFill, wg, restarts,
                 last_daily, dl, hl>>

\* ---------------------------------------------------------------- two guilds
\* the commands of the economy, each called in either guild while no handler
\* is between its eco_add and its log_history
TenantMayCall == ~InSegment /\ ops < MaxOps

TenantWager ==
  /\ TenantMayCall
  /\ \E h \in WagerHandlers, g \in AllGuilds, u \in Players, res \in Sides :
       CoinflipCall(h, g, u, "ch1", "heads", res, 10, TRUE)

TenantDaily ==
  /\ TenantMayCall
  /\ \E h \in {1}, g \in AllGuilds, u \in Players : DailyCall(h, g, u, "ch1")

TenantGive ==
  /\ TenantMayCall
  /\ \E g \in AllGuilds, sender \in Admins, user \in Players,
        amount \in GiveAmounts :
       Give(g, sender, user, "ch1", amount)

TenantGrant ==
  /\ TenantMayCall
  /\ \E h \in {1}, g \in AllGuilds, caller \in Admins, user \in Players,
        amount \in GrantAmounts :
       GrantCall(h, g, caller, TRUE, {}, user, amount)

TenantRedeem ==
  /\ TenantMayCall
  /\ \E h \in {1}, g \in AllGuilds, user \in Players, code \in Codes :
       RedeemCall(h, g, user, code)

TenantCodeCreate ==
  /\ TenantMayCall
  /\ \E g \in AllGuilds, code \in Codes, amount \in CodeAmounts :
       RedeemCreateCmd(g, TRUE, {}, code, amount, 1, {})

TenantCodeDelete ==
  /\ TenantMayCall
  /\ \E g \in AllGuilds, code \in Codes : RedeemDeleteCmd(g, TRUE, {}, code)

TenantSettings ==
  /\ ~InSegment
  /\ \E g \in AllGuilds : GamblingSettings(g, {FALSE}, {}, {}, {}, {}, {})

TenantReset ==
  /\ TenantMayCall
  /\ \E g \in AllGuilds : PanelResetLeaderboard(g)

\* the handlers in flight go on
TenantReplies ==
  \/ \E h \in WagerHandlers : WagerLog(h, TRUE)
  \/ \E h \in WagerHandlers : WagerReplied(h)
  \/ \E h \in Handlers : DailyReplied(h)
  \/ \E h \in Handlers : GrantReplied(h)
  \/ \E h \in Handlers : RedeemReplied(h)

NextTenants ==
  \/ TenantWager
  \/ TenantDaily
  \/ TenantGive
  \/ TenantGrant
  \/ TenantRedeem
  \/ TenantCodeCreate
  \/ TenantCodeDelete
  \/ TenantSettings
  \/ TenantReset
  \/ TenantReplies

SpecTenants == Init /\ [][NextTenants]_vars

\* the commands that move currency, on a bot started without any store file
\* (economy.json, settings.json and redeem.json do not exist yet)
BooksDaily ==
  /\ TenantMayCall
  /\ \E h \in {1}, g \in AllGuilds, u \in Users : DailyCall(h, g, u, "ch1")

BooksGive ==
  /\ TenantMayCall
  /\ \E g \in AllGuilds, sender \in Users, user \in Users,
        amount \in GiveAmounts :
       Give(g, sender, user, "ch1", amount)

BooksReplies ==
  \/ \E h \in WagerHandlers : WagerReplied(h)
  \/ \E h \in Handlers : DailyReplied(h)
  \/ \E h \in Handlers : GrantReplied(h)
  \/ \E h \in Handlers : RedeemReplied(h)

BooksDay == ~InSegment /\ DayPassesAny

NextBooks ==
  \/ TenantWager
  \/ BooksDay
  \/ BooksDaily
  \/ BooksGive
  \/ TenantGrant
  \/ TenantRedeem
  \/ TenantCodeCreate
  \/ TenantReset
  \/ BooksReplies

InitBooks ==
  /\ bal0 = 0
  /\ StoreLoaded
  /\ HandlersInit

SpecBooks == InitBooks /\ [][NextBooks]_vars

\* ---------------------------------------------------------------- dice, roulette
\* the faces of one die, the guess typed into /dice
Die == 1..6
DiceInputs == {"high", "low", "seven"}
\* the pockets of the wheel and the red ones
RouletteNumbers == 0..36
REDS == {1, 3, 5, 7, 9, 12, 14, 16, 18, 19, 21, 23, 25, 27, 30, 32, 34, 36}
\* the choice typed into /roulette: a colour, digits, or anything else
ColourChoice(c) == [kind |-> "colour", c |-> c, n |-> 0]
NumberChoice(n) == [kind |-> "number", c |-> "none", n |-> n]
RouletteChoices ==
  {ColourChoice("red"), ColourChoice("black"), NumberChoice(0), NumberChoice(17),
   NumberChoice(37), ColourChoice("green")}
\* the choices roulette_cmd takes a bet on
ValidChoice(choice) ==
  \/ choice.kind = "number" /\ choice.n \in RouletteNumbers
  \/ choice.kind = "colour" /\ choice.c \in {"red", "black"}

\* the early returns of dice_cmd, in their order, or "ok"
DiceCheck(g, u, channel, guess, bet) ==
  IF ~in_gambling_channel(g, channel) THEN "channel"
  ELSE IF ~guild_setting(g, "GAMBLING_ENABLED") THEN "disabled"
  ELSE IF guess \notin {"high", "low"} THEN "guess"
  ELSE IF ~WithinLimits(g, bet) THEN "limits"
  ELSE IF eco_get(g, u) < bet THEN "insufficient"
  ELSE "ok"

\* a dice game in which a 7 counts as high
DiceWin_SevenHigh(guess, roll) ==
  (roll <= 6 /\ guess = "low") \/ (roll >= 7 /\ guess = "high")

\* (roll <= 6 and guess == "low") or (roll >= 8 and guess == "high")
DiceWin(guess, roll) ==
  (roll <= 6 /\ guess = "low") \/ (roll >= 8 /\ guess = "high")

\* the delta of dice_cmd
DiceDelta(guess, roll, bet, edge) ==
  IF DiceWin(guess, roll) THEN Payout(bet, 200, edge) ELSE -bet

\* dice_cmd up to the return of eco_add
DiceCall(h, g, u, channel, guess, d1, d2, bet, ok) ==
  WagerCallWith(h, g, u, channel, "dice", bet,
                DiceCheck(g, u, channel, guess, bet), DiceWin(guess, d1 + d2),
                DiceDelta(guess, d1 + d2, bet, _limits(g)[3]), ok, guess, d1 + d2)

\* the early returns of roulette_cmd, in their order, or "ok": the choice is
\* looked at after the limits and the balance
RouletteCheck(g, u, channel, choice, bet) ==
  IF ~in_gambling_channel(g, channel) THEN "channel"
  ELSE IF ~guild_setting(g, "GAMBLING_ENABLED") THEN "disabled"
  ELSE IF ~WithinLimits(g, bet) THEN "limits"
  ELSE IF eco_get(g, u) < bet THEN "insufficient"
  ELSE IF ~ValidChoice(choice) THEN "choice"
  ELSE "ok"

RouletteColor(num) ==
  IF num \in REDS THEN "red" ELSE IF num = 0 THEN "green" ELSE "black"

\* win of roulette_cmd: 0 unless the number or the colour came up
RouletteWin(choice, num, bet, edge) ==
  IF choice.kind = "number"
    THEN IF choice.n = num THEN Payout(bet, 3500, edge) ELSE 0
    ELSE IF choice.c = RouletteColor(num) THEN Payout(bet, 200, edge) ELSE 0

\* the delta of roulette_cmd: `if win > 0` the win, else -bet
RouletteDelta(choice, num, bet, edge) ==
  IF RouletteWin(choice, num, bet, edge) > 0
    THEN RouletteWin(choice, num, bet, edge) ELSE -bet

\* roulette_cmd up to the return of eco_add
RouletteCall(h, g, u, channel, choice, num, bet, ok) ==
  WagerCall(h, g, u, channel, "roulette", bet,
            RouletteCheck(g, u, channel, choice, bet),
            RouletteWin(choice, num, bet, _limits(g)[3]) > 0,
            RouletteDelta(choice, num, bet, _limits(g)[3]), ok)

\* ---------------------------------------------------------------- the odds
\* the four games with a finite uniform outcome set, every outcome drawn
OddsBets == {10, 20, 30}
GuessRanges == {3, 5, 10}

\* a wager can be called: the guard of every wager handler
OddsMayCall == ops < MaxWagers /\ ~InSegment

OddsCoinflip ==
  OddsMayCall /\ \E h \in WagerHandlers, g \in AllGuilds, u \in Users, side \in Sides,
     res \in Sides, bet \in OddsBets :
    CoinflipCall(h, g, u, "ch1", side, res, bet, TRUE)

OddsDice ==
  OddsMayCall /\ \E h \in WagerHandlers, g \in AllGuilds, u \in Users, guess \in DiceInputs,
     d1 \in Die, d2 \in Die, bet \in OddsBets :
    DiceCall(h, g, u, "ch1", guess, d1, d2, bet, TRUE)

OddsRoulette ==
  OddsMayCall /\ \E h \in WagerHandlers, g \in AllGuilds, u \in Users,
     choice \in RouletteChoices, num \in RouletteNumbers, bet \in OddsBets :
    RouletteCall(h, g, u, "ch1", choice, num, bet, TRUE)

OddsGuess ==
  OddsMayCall /\ \E h \in WagerHandlers, g \in AllGuilds, u \in Users, range_max \in GuessRanges,
     guess \in {1, 3}, target \in 1..10, bet \in OddsBets :
    /\ target <= range_max
    /\ GuessCall(h, g, u, "ch1", range_max, guess, target, bet, TRUE)

NextOdds ==
  \/ OddsCoinflip
  \/ OddsDice
  \/ OddsRoulette
  \/ OddsGuess
  \/ \E h \in WagerHandlers : WagerLog(h, TRUE)
  \/ \E h \in WagerHandlers : WagerReplied(h)

SpecOdds == Init /\ [][NextOdds]_vars

\* ---------------------------------------------------------------- the limits
\* the bets typed into /coinflip and /dice and the minimum bets an admin types
\* into /gambling_settings or into the Min Bet field of the admin panel
LimitsBets == {-5, 0, 10}
LimitsMinBets == {{-5}, {0}, {20}}

LimitsCoinflip ==
  \E h \in WagerHandlers, g \in Guilds, u \in Users, res \in Sides,
     bet \in LimitsBets :
    CoinflipCall(h, g, u, "ch1", "heads", res, bet, TRUE)

LimitsDice ==
  \E h \in WagerHandlers, g \in Guilds, u \in Users, d1 \in {1, 6},
     bet \in LimitsBets :
    DiceCall(h, g, u, "ch1", "high", d1, 6, bet, TRUE)

LimitsSettings ==
  \E g \in Guilds, min_bet \in LimitsMinBets :
    GamblingSettings(g, {}, min_bet, {}, {}, {}, {})

LimitsPanel ==
  \E g \in Guilds, min_bet \in LimitsMinBets : LimitsSubmit(g, min_bet)

NextLimits ==
  \/ LimitsCoinflip
  \/ LimitsDice
  \/ LimitsSettings
  \/ LimitsPanel
  \/ \E h \in WagerHandlers : WagerLog(h, TRUE)
  \/ \E h \in WagerHandlers : WagerReplied(h)

SpecLimits == Init /\ [][NextLimits]_vars

\* ---------------------------------------------------------------- message spawns
\* what on_message never writes
spawnFrame ==
  <<settings, redeem, ticks, bal0, auto, grant, crash, bj, rd, redeemed,
    lastFill, wg, restarts, last_daily, dl, hl, last_cmd, trace>>

\* the rewards random.randint(reward_min, reward_max) yields, 0 for a guild
\* that configured none
SpawnRewards == {0, 5}

\* seconds between two messages
SpawnSteps == {60, 121}

\* on_message for a message of `author` in the spawn channel of G1, up to its
\* first await after process_commands; `correct`: the normalized content is
\* the unit's name; `spawns`: the counter reached the threshold and the chance
\* gate passed. A winner's handler leaves JJK_ACTIVE[key] in place while it
\* awaits fetch_message and msg.edit
OnMessage(m, author, correct, reward, spawns) ==
  /\ jjk.h[m].pc = "idle"
  /\ ops < MaxCalls
  /\ ops' = ops + 1
  /\ LET g == "G1"
         expired == jjk.active.id # 0 /\ now > jjk.active.deadline
         act == IF expired THEN NoSpawn ELSE jjk.active
     IN  IF act.id # 0 /\ correct
           THEN /\ jjk' = [jjk EXCEPT
                     !.active = act,
                     !.h[m] = [pc |-> "edit", id |-> act.id],
                     !.wins = Append(@, [id |-> act.id, author |-> author,
                                         reward |-> reward])]
                /\ IF reward > 0
                     THEN /\ balances' = BalancesAfterAdd(balances, g, author, reward)
                          /\ sumDeltas' = SumAfter(sumDeltas, g, author, reward)
                          /\ history' = HistoryAfterLog(history, g, author,
                                          "unitspawn_jjk", reward, reward)
                          /\ stats' = StatsAfterLog(
                               StatsAfterAdd(stats, g, author, reward), g, author)
                          /\ disk' = _save_json(disk,
                               Dumped(balances', stats', history', settings,
                                      redeem, last_daily), TRUE)
                     ELSE UNCHANGED ledger
           ELSE /\ jjk' = [jjk EXCEPT
                     !.active = act,
                     !.h[m] = IF spawns /\ act.id = 0
                                THEN [pc |-> "send", id |-> 0] ELSE @]
                /\ UNCHANGED ledger
  /\ UNCHANGED <<spawnFrame, now>>

\* fetch_message and msg.edit of the winner's handler are over:
\* JJK_ACTIVE.pop(key, None)
OnMessageEdited(m) ==
  /\ jjk.h[m].pc = "edit"
  /\ jjk' = [jjk EXCEPT !.active = NoSpawn, !.h[m] = [pc |-> "idle", id |-> 0]]
  /\ UNCHANGED <<spawnFrame, now, ops, ledger>>

\* channel.send of the spawn is over: JJK_ACTIVE[key] is armed with a deadline
\* of 120 seconds
OnMessageSent(m) ==
  /\ jjk.h[m].pc = "send"
  /\ jjk' = [jjk EXCEPT
       !.active = [id |-> jjk.next_id, deadline |-> now + 120],
       !.next_id = @ + 1,
       !.h[m] = [pc |-> "idle", id |-> 0]]
  /\ UNCHANGED <<spawnFrame, now, ops, ledger>>

\* time.time() grows by d seconds
SpawnClock(d) ==
  /\ ticks < MaxTicks
  /\ ticks' = ticks + 1
  /\ now' = now + d
  /\ UNCHANGED <<settings, redeem, bal0, auto, grant, crash, bj, rd, redeemed,
                 lastFill, wg, restarts, last_daily, dl, hl, last_cmd, trace,
                 jjk, ops, ledger>>

SpawnMessage ==
  \E m \in Handlers, author \in Users, correct \in BOOLEAN,
     reward \in SpawnRewards, spawns \in BOOLEAN :
    OnMessage(m, author, correct, reward, spawns)
SpawnEdited == \E m \in Handlers : OnMessageEdited(m)
SpawnSent == \E m \in Handlers : OnMessageSent(m)
SpawnClockAny == \E d \in SpawnSteps : SpawnClock(d)

NextSpawn == SpawnMessage \/ SpawnEdited \/ SpawnSent \/ SpawnClockAny

SpecSpawn == Init /\ [][NextSpawn]_vars

\* ---------------------------------------------------------------- auto spawns
\* what the auto-spawn commands and workers never write
autoFrame ==
  <<settings, redeem, now, ticks, bal0, jjk, grant, crash, bj, rd, redeemed,
    lastFill, wg, restarts, last_daily, dl, hl, trace, ledger>>

\* _unitspawn_load: UNITSPAWN = json.load(f) binds a new dict, holding a new
\* dict object for every guild of the file
_unitspawn_load(a) ==
  [a EXCEPT !.gen = @ + 1,
            !.obj = [g \in AllGuilds |-> IF g \in a.file THEN a.gen + 1 ELSE 0]]

\* unitspawn_auto_on in guild g: the task UNITSPAWN_TASKS held is cancelled
\* and dropped, a new one is created in its place
UnitspawnAutoOn(g, manage_guild) ==
  /\ ops < MaxCalls
  /\ ops' = ops + 1
  /\ last_cmd' = [NoCmd EXCEPT !.cmd = "unitspawn_auto_on", !.g = g,
                               !.manage_guild = manage_guild]
  /\ IF ~manage_guild THEN UNCHANGED auto
     ELSE LET a == _unitspawn_load(auto)
          IN  auto' = [a EXCEPT !.obj[g] = a.gen,
                                !.file = @ \cup {g},
                                !.worker[g] = [NoWorker EXCEPT !.pc = "start"]]
  /\ UNCHANGED autoFrame

\* unitspawn_auto_off in guild g: the task is cancelled and dropped
UnitspawnAutoOff(g, manage_guild) ==
  /\ ops < MaxCalls
  /\ ops' = ops + 1
  /\ last_cmd' = [NoCmd EXCEPT !.cmd = "unitspawn_auto_off", !.g = g,
                               !.manage_guild = manage_guild]
  /\ IF ~manage_guild THEN UNCHANGED auto
     ELSE LET a == _unitspawn_load(auto)
          IN  auto' = [a EXCEPT !.obj[g] = 0,
                                !.file = @ \ {g},
                                !.worker[g] = NoWorker]
  /\ UNCHANGED autoFrame

\* unitspawn_settings in guild g: a load, then a read
UnitspawnSettings(g) ==
  /\ ops < MaxCalls
  /\ ops' = ops + 1
  /\ last_cmd' = [NoCmd EXCEPT !.cmd = "unitspawn_settings", !.g = g]
  /\ auto' = _unitspawn_load(auto)
  /\ UNCHANGED autoFrame

\* `while UNITSPAWN.get(str(guild_id)) is cfg`: the loop goes on to its sleep
\* while UNITSPAWN holds the very object the worker bound, and ends otherwise
LoopTest(a, g, cfg) == IF a.obj[g] = cfg THEN "sleep" ELSE "done"

\* the task starts: cfg = UNITSPAWN.get(str(guild_id)), `if not cfg: return`,
\* the first test of the loop, up to asyncio.sleep(delay)
WorkerStart(g) ==
  /\ auto.worker[g].pc = "start"
  /\ auto' = [auto EXCEPT !.worker[g] =
       IF auto.obj[g] = 0 THEN [NoWorker EXCEPT !.pc = "done"]
       ELSE [NoWorker EXCEPT !.pc = LoopTest(auto, g, auto.obj[g]),
                             !.cfg = auto.obj[g]]]
  /\ UNCHANGED <<autoFrame, ops, last_cmd>>

\* the sleep is over and the chance gate passes: await _unitspawn_send
WorkerSpawns(g) ==
  /\ auto.worker[g].pc = "sleep"
  /\ auto' = [auto EXCEPT !.worker[g].pc = "send"]
  /\ UNCHANGED <<autoFrame, ops, last_cmd>>

\* the sleep is over and the roll is above the chance: `continue`
WorkerSkips(g) ==
  /\ auto.worker[g].pc = "sleep"
  /\ auto' = [auto EXCEPT !.worker[g].pc = LoopTest(auto, g, auto.worker[g].cfg)]
  /\ UNCHANGED <<autoFrame, ops, last_cmd>>

\* _unitspawn_send is over: back to the test of the loop
WorkerSent(g) ==
  /\ auto.worker[g].pc = "send"
  /\ auto' = [auto EXCEPT !.worker[g].pc = LoopTest(auto, g, auto.worker[g].cfg),
                          !.worker[g].spawned = TRUE]
  /\ UNCHANGED <<autoFrame, ops, last_cmd>>

AutoOn == \E g \in AllGuilds, manage_guild \in BOOLEAN : UnitspawnAutoOn(g, manage_guild)
AutoOff == \E g \in AllGuilds, manage_guild \in BOOLEAN : UnitspawnAutoOff(g, manage_guild)
AutoSettings == \E g \in AllGuilds : UnitspawnSettings(g)
AutoStart == \E g \in AllGuilds : WorkerStart(g)
AutoSpawns == \E g \in AllGuilds : WorkerSpawns(g)
AutoSkips == \E g \in AllGuilds : WorkerSkips(g)
AutoSent == \E g \in AllGuilds : WorkerSent(g)

NextAuto ==
  \/ AutoOn
  \/ AutoOff
  \/ AutoSettings
  \/ AutoStart
  \/ AutoSpawns
  \/ AutoSkips
  \/ AutoSent

SpecAuto == Init /\ [][NextAuto]_vars

\* the event loop runs every task that can run, and a chance gate that is
\* tried again and again passes in the end
AutoFair ==
  \A g \in AllGuilds :
    /\ WF_vars(WorkerStart(g))
    /\ WF_vars(WorkerSent(g))
    /\ WF_vars(WorkerSpawns(g) \/ WorkerSkips(g))
    /\ SF_vars(WorkerSpawns(g))

SpecAutoFair == SpecAuto /\ AutoFair

\* ---------------------------------------------------------------- claims
\* C1: whatever the interleaving of the handlers that call eco_add on one
\* account, its balance is the balance at start plus the sum of every delta
\* handed to eco_add for it: no update is lost.
C1_NoLostUpdate ==
  \A g \in Guilds, u \in Users : eco_get(g, u) = bal0 + sumDeltas[g][u]

\* two handlers that both called eco_add on one account are in flight together
C1_Witness ==
  /\ crash.pc = "bustEdit"
  /\ \E h \in Handlers :
       /\ grant[h].pc = "reply" /\ grant[h].out = "added"
       /\ grant[h].g = crash.g /\ grant[h].user = crash.u
  /\ sumDeltas[crash.g][crash.u] = 0

\* C2: a crash round applies exactly one delta over its life: never two, and
\* when it is over either the payout (CASHED) or the debit of the bet (BUSTED).
C2_OneDeltaPerRound ==
  /\ Len(crash.deltas) <= 1
  /\ (crash.pc = "done" /\ crash.bust_at # 0) =>
       /\ Len(crash.deltas) = 1
       /\ crash.cashed => crash.deltas[1] >= 0
       /\ ~crash.cashed => crash.deltas[1] = -crash.bet

\* C3: a blackjack round applies its settlement delta exactly once: the round
\* is settled exactly when one delta has been applied, and once it is settled
\* no click on Hit, Stand or Double changes a balance, the stats or the history.
C3_SettledOnce ==
  /\ [](Len(bj.deltas) <= 1 /\ (bj.finished <=> Len(bj.deltas) = 1))
  /\ [][bj.finished => UNCHANGED <<balances, stats, history>>]_vars

\* a click reached finish() after the round was settled, while the settling
\* handler was still awaiting its edit_message
C3_Witness ==
  /\ bj.finished /\ bj.editing /\ bj.out = "ignored"
  /\ Len(bj.deltas) = 1 /\ bj.deltas[1] # 0
\* ---- the redeem claims
RECURSIVE SumOver(_, _)
SumOver(f, S) ==
  IF S = {} THEN 0
  ELSE LET x == CHOOSE y \in S : TRUE IN f[x] + SumOver(f, S \ {x})

\* the step in which handler h runs redeem_cmd up to its await
Attempt(h) == rd[h].pc = "idle" /\ rd'[h].pc = "reply"

Stored(g, c) == c \in DOMAIN redeem[g]

Claimed(g, c, u) == \E i \in DOMAIN redeem[g][c].claimed_by : redeem[g][c].claimed_by[i] = u

PastExpiry(g, c) == redeem[g][c].expires # 0 /\ now > redeem[g][c].expires

Full(g, c) == redeem[g][c].uses >= redeem[g][c].max_uses

\* C4: with no admin edit, whatever the interleaving of the redeem handlers,
\* the redemptions of a stored code entry that succeeded never pass its
\* max_uses (none succeeds at all when max_uses is not positive).
C4_NoOverRedeem ==
  \A g \in Guilds, c \in Codes :
    Stored(g, c) =>
      \/ SumOver(redeemed[g][c], Users) = 0
      \/ SumOver(redeemed[g][c], Users) <= redeem[g][c].max_uses

\* two redeem handlers of one single-use code are in flight together: one
\* succeeded, the other was refused
C4_Witness ==
  \E h1 \in Handlers, h2 \in Handlers :
    /\ rd[h1].pc = "reply" /\ rd[h2].pc = "reply"
    /\ rd[h1].g = rd[h2].g /\ rd[h1].code = rd[h2].code
    /\ rd[h1].user # rd[h2].user
    /\ rd[h1].out = "OK" /\ rd[h2].out = "Exhausted"
    /\ Stored(rd[h1].g, rd[h1].code)
    /\ redeem[rd[h1].g][rd[h1].code].max_uses = 1
    /\ SumOver(redeemed[rd[h1].g][rd[h1].code], Users) = 1

\* C5: every stored code has uses_so_far <= max_uses, after any sequence of
\* create, edit, redeem and delete with any admin-supplied parameters.
C5_UsesWithinMax ==
  \A g \in Guilds, c \in Codes :
    Stored(g, c) => redeem[g][c].uses <= redeem[g][c].max_uses

\* C6: the reason redeem reports is the first that holds of NotFound, Disabled,
\* Expired, AlreadyClaimed, Exhausted, in that order.
C6_Precedence ==
  [][\A h \in Handlers :
       Attempt(h) =>
         LET g == rd'[h].g
             c == rd'[h].code
             u == rd'[h].user
         IN  rd'[h].out =
               IF ~Stored(g, c) THEN "NotFound"
               ELSE IF redeem[g][c].disabled THEN "Disabled"
               ELSE IF PastExpiry(g, c) THEN "Expired"
               ELSE IF Claimed(g, c, u) THEN "AlreadyClaimed"
               ELSE IF Full(g, c) THEN "Exhausted"
               ELSE "OK"]_vars

\* a claimant retried a used-up code: AlreadyClaimed and Exhausted both held,
\* and the earlier one was reported
C6_Witness ==
  \E h \in Handlers :
    /\ rd[h].pc = "reply" /\ rd[h].out = "AlreadyClaimed"
    /\ Stored(rd[h].g, rd[h].code)
    /\ Claimed(rd[h].g, rd[h].code, rd[h].user)
    /\ Full(rd[h].g, rd[h].code)

\* a failed attempt changes no balance and no code
FailedAttemptFrame(h) ==
  rd'[h].out # "OK" => UNCHANGED <<balances, redeem>>

\* C7 as claimed: a failed attempt leaves balance, uses_so_far and claimants as
\* they were, and every attempt on a max_uses = 1 code that was claimed once
\* fails with AlreadyClaimed or Exhausted.
C7_AsClaimed ==
  [][\A h \in Handlers :
       Attempt(h) =>
         /\ FailedAttemptFrame(h)
         /\ LET g == rd'[h].g
                c == rd'[h].code
            IN  (Stored(g, c) /\ redeem[g][c].max_uses = 1 /\ redeem[g][c].uses = 1)
                  => rd'[h].out \in {"AlreadyClaimed", "Exhausted"}]_vars

\* C7 as amended: a failed attempt leaves balance, uses_so_far and claimants as
\* they were, and every attempt on a max_uses = 1 code that was claimed once
\* fails: with Disabled or Expired when the code is disabled or past its
\* expiry, and with AlreadyClaimed or Exhausted otherwise.
C7_FailedRedeemChangesNothing ==
  [][\A h \in Handlers :
       Attempt(h) =>
         /\ FailedAttemptFrame(h)
         /\ LET g == rd'[h].g
                c == rd'[h].code
            IN  (Stored(g, c) /\ redeem[g][c].max_uses = 1 /\ redeem[g][c].uses = 1)
                  => /\ UNCHANGED <<balances, redeem>>
                     /\ rd'[h].out \in
                          IF redeem[g][c].disabled \/ PastExpiry(g, c)
                            THEN {"Disabled", "Expired"}
                            ELSE {"AlreadyClaimed", "Exhausted"}]_vars

\* a second member tried a single-use code after its one claim and was refused,
\* with the balance still what it was at start
C7_Witness ==
  \E h \in Handlers :
    /\ rd[h].pc = "reply" /\ rd[h].out = "Exhausted"
    /\ Stored(rd[h].g, rd[h].code)
    /\ redeem[rd[h].g][rd[h].code].max_uses = 1
    /\ redeem[rd[h].g][rd[h].code].uses = 1
    /\ ~Claimed(rd[h].g, rd[h].code, rd[h].user)
    /\ eco_get(rd[h].g, rd[h].user) = bal0

\* C8: an attempt on a code that is disabled, or whose expires is non-zero and
\* in the past, fails and credits nothing, whatever its uses and claimants; a
\* code whose expires is 0 is never reported expired.
C8_DisabledOrExpiredGrantsNothing ==
  [][\A h \in Handlers :
       Attempt(h) =>
         LET g == rd'[h].g
             c == rd'[h].code
         IN  Stored(g, c) =>
               /\ (redeem[g][c].disabled \/ PastExpiry(g, c)) =>
                    /\ rd'[h].out \in {"Disabled", "Expired"}
                    /\ UNCHANGED <<balances, redeem>>
               /\ redeem[g][c].expires = 0 => rd'[h].out # "Expired"]_vars

\* an expired code with uses left was refused to a member who never claimed it
C8_Witness ==
  \E h \in Handlers :
    /\ rd[h].pc = "reply" /\ rd[h].out = "Expired"
    /\ Stored(rd[h].g, rd[h].code)
    /\ ~Full(rd[h].g, rd[h].code)
    /\ ~Claimed(rd[h].g, rd[h].code, rd[h].user)
    /\ ~redeem[rd[h].g][rd[h].code].disabled

\* C9: for every stored code entry and every user, at most one redeem by that
\* user has succeeded and the user is listed at most once in claimed_by.
C9_OncePerUser ==
  \A g \in Guilds, c \in Codes, u \in Users :
    /\ redeemed[g][c][u] <= 1
    /\ Stored(g, c) =>
         Cardinality({i \in DOMAIN redeem[g][c].claimed_by :
                        redeem[g][c].claimed_by[i] = u}) <= 1

\* a claimant came back to a code with uses left and was refused
C9_Witness ==
  \E h \in Handlers :
    /\ rd[h].pc = "reply" /\ rd[h].out = "AlreadyClaimed"
    /\ Stored(rd[h].g, rd[h].code)
    /\ redeemed[rd[h].g][rd[h].code][rd[h].user] = 1
    /\ ~Full(rd[h].g, rd[h].code)

\* what a successful redeem does to the code and the balance
SuccessEffect(h) ==
  LET g == rd'[h].g
      c == rd'[h].code
      u == rd'[h].user
  IN  rd'[h].out = "OK" =>
        /\ redeem'[g][c].uses = redeem[g][c].uses + 1
        /\ Range(redeem'[g][c].claimed_by) = Range(redeem[g][c].claimed_by) \cup {u}
        /\ Get(balances'[g], u, 0) = eco_get(g, u) + redeem[g][c].amount

\* the attempt by h is the next redeem of a code after the redeem that filled
\* it, by another user, with no create, edit or delete of the code in between
NextAfterFill(h) ==
  /\ lastFill.on
  /\ lastFill.g = rd'[h].g /\ lastFill.code = rd'[h].code
  /\ lastFill.user # rd'[h].user

\* C10 as claimed: a successful redeem adds 1 to uses_so_far, the user to the
\* claimants and the amount to the balance; when it fills the code, the next
\* redeem by any other user fails with Exhausted.
C10_AsClaimed ==
  [][\A h \in Handlers :
       Attempt(h) =>
         /\ SuccessEffect(h)
         /\ NextAfterFill(h) => rd'[h].out = "Exhausted"]_vars

\* C10 as amended: a successful redeem adds 1 to uses_so_far, the user to the
\* claimants and the amount to the balance; when it fills the code, the next
\* redeem by any other user fails: with Expired if the code has expired since,
\* else with AlreadyClaimed if that user is a claimant, else with Exhausted.
C10_SuccessfulRedeem ==
  [][\A h \in Handlers :
       Attempt(h) =>
         /\ SuccessEffect(h)
         /\ NextAfterFill(h) =>
              rd'[h].out =
                IF PastExpiry(rd'[h].g, rd'[h].code) THEN "Expired"
                ELSE IF Claimed(rd'[h].g, rd'[h].code, rd'[h].user)
                  THEN "AlreadyClaimed"
                ELSE "Exhausted"]_vars

\* the second claim of a two-use code filled it and was credited, and the
\* handler that made it is still in flight
C10_Witness ==
  \E h \in Handlers :
    /\ rd[h].pc = "reply" /\ rd[h].out = "OK"
    /\ lastFill.on /\ lastFill.user = rd[h].user
    /\ Stored(rd[h].g, rd[h].code)
    /\ redeem[rd[h].g][rd[h].code].uses = 2
    /\ redeem[rd[h].g][rd[h].code].max_uses = 2
    /\ rd[h].new_bal = bal0 + redeem[rd[h].g][rd[h].code].amount

\* ---- the claims on durability, timeouts and wager checks
\* C11: at the moment eco_add has returned to a wager handler, economy.json
\* holds for that account exactly the balance eco_add returned.
C11_DurableOnReturn ==
  \A h \in WagerHandlers :
    wg[h].pc = "log" =>
      Get(disk.balances[wg[h].g], wg[h].u, 0) = wg[h].new_bal

C11_Witness ==
  \E h \in WagerHandlers :
    /\ wg[h].pc = "log" /\ wg[h].delta < 0
    /\ wg[h].new_bal = bal0 + wg[h].delta
    /\ Get(disk.balances[wg[h].g], wg[h].u, 0) = bal0 + wg[h].delta

RECURSIVE ResultSum(_)
ResultSum(entries) ==
  IF entries = <<>> THEN 0
  ELSE entries[Len(entries)].result + ResultSum(SubSeq(entries, 1, Len(entries) - 1))

\* a store in which every balance is the start balance plus the results of the
\* account's history entries, and bets counts those entries
WagersMatch(b, s, hist) ==
  \A g \in Guilds, u \in Users :
    /\ Get(b[g], u, 0) = bal0 + ResultSum(Get(hist[g], u, <<>>))
    /\ Get(s[g], u, NoStats).bets = Len(Get(hist[g], u, <<>>))

\* C12: the store a restarted process loads never holds a wager's balance delta
\* without the wager's history entry and bets increment.
C12_WagerDurableTogether ==
  [][restarts' = restarts + 1 => WagersMatch(balances', stats', history')]_vars

\* C14: a handler whose eco_add write failed goes no further: it reports no
\* outcome and no new balance.
C14_FailedWriteNoSuccess ==
  \A h \in WagerHandlers :
    wg[h].failed =>
      /\ wg[h].pc = "raised"
      /\ wg[h].out = "none"
      /\ wg[h].new_bal = 0

C14_Witness ==
  \E h \in WagerHandlers :
    /\ wg[h].failed /\ wg[h].pc = "raised"
    /\ eco_get(wg[h].g, wg[h].u) # Get(disk.balances[wg[h].g], wg[h].u, 0)

\* a store in which every balance is the start balance plus the amounts of the
\* codes that list the account as a claimant, and uses counts the claimants
CreditsMatch(b, r) ==
  /\ \A g \in Guilds, u \in Users :
       Get(b[g], u, 0) = bal0 + SumOver(
         [c \in DOMAIN r[g] |->
            IF u \in Range(r[g][c].claimed_by) THEN r[g][c].amount ELSE 0],
         DOMAIN r[g])
  /\ \A g \in Guilds : \A c \in DOMAIN r[g] : r[g][c].uses = Len(r[g][c].claimed_by)

\* C13: the store a restarted process loads never holds the credit of a
\* redemption without its uses increment and its claimant entry.
C13_RedeemDurableTogether ==
  [][restarts' = restarts + 1 => CreditsMatch(balances', redeem')]_vars

\* C15: a blackjack round whose view has timed out is settled: the stake is
\* debited as a loss and the round is logged once.
C15_TimeoutSettlesAsLoss ==
  (bj.pc = "open" /\ ~bj.attached) =>
    /\ bj.finished
    /\ Len(bj.deltas) = 1

\* C18: a step that lowers a balance by a wager's debit finds at least that
\* amount on the account: no balance goes below zero through a wager.
C18_DebitCovered ==
  [][\A g \in Guilds, u \in Users :
       Get(balances'[g], u, 0) < Get(balances[g], u, 0) =>
         Get(balances'[g], u, 0) >= 0]_vars

\* the bust of the round is on the ledger: the bet debited, the loss logged
BustLogged ==
  /\ crash.deltas # <<>> /\ crash.deltas[1] = -crash.bet
  /\ LET hist == Get(history[crash.g], crash.u, <<>>)
     IN  \E i \in 1..Len(hist) :
           hist[i] = [t |-> now, game |-> "crash", bet |-> crash.bet,
                      result |-> -crash.bet]

\* C16: every crash round that was started ends; one that ends without a
\* cash-out has reached its bust point, with the bet debited and logged.
C16_CrashRoundEnds ==
  /\ (crash.pc = "sending") ~> (crash.pc = "done")
  /\ []((crash.pc = "done" /\ crash.bust_at # 0 /\ ~crash.cashed) =>
          (crash.multiplier >= crash.bust_at /\ BustLogged))

C16_Witness ==
  /\ crash.pc = "done" /\ crash.bust_at = 130 /\ ~crash.cashed
  /\ crash.multiplier >= 130 /\ crash.deltas = <<-crash.bet>>
  /\ eco_get(crash.g, crash.u) = bal0 - crash.bet

\* C17: the round goes to CASHED only at a multiplier of at least 1.25; a click
\* below it is turned down with the ledger, the flag and the loop untouched, and
\* the round it was made on still ends.
C17_CashoutThreshold ==
  /\ [][(~crash.cashed /\ crash'.cashed) =>
          (crash.multiplier >= MIN_CASHOUT /\ crash'.multiplier = crash.multiplier)]_vars
  /\ [][(CrashCashout /\ ~crash.cashed /\ crash.multiplier < MIN_CASHOUT) =>
          /\ crash'.out = "too early"
          /\ UNCHANGED <<balances, stats, history>>
          /\ crash'.cashed = crash.cashed
          /\ crash'.pc = crash.pc
          /\ crash'.deltas = crash.deltas]_vars
  /\ (crash.out = "too early") ~> (crash.pc = "done")

C17_Witness ==
  /\ crash.out = "too early" /\ crash.pc = "sleep"
  /\ crash.multiplier = 120 /\ ~crash.cashed /\ crash.deltas = <<>>

\* the step in which the wager handler of slot h runs up to its first await or
\* to the return of eco_add
WagerCalled(h) == wg[h].pc = "idle" /\ wg'[h].pc # "idle"

\* the wager of slot h is turned down and the ledger is as it was
WagerRefused(h) ==
  /\ wg'[h].pc = "reply"
  /\ wg'[h].out \notin {"none", "won", "lost"}
  /\ UNCHANGED <<balances, stats, history, disk>>

\* reasons that come before the three bet checks
EarlierReasons == {"channel", "side", "range", "guess"}

\* C19: a wager issued while gambling is disabled, or with a bet outside
\* [MIN_BET, MAX_BET], or with a balance below the bet, is turned down with
\* balances, stats and history unchanged; unless the command was already turned
\* down for its channel or a malformed argument, the reason given is
\* "disabled", "limits" or "insufficient" respectively.
C19_WagerRejected ==
  [][\A h \in WagerHandlers :
       WagerCalled(h) =>
         LET g == wg'[h].g
             u == wg'[h].u
             bet == wg'[h].bet
             off == ~guild_setting(g, "GAMBLING_ENABLED")
             outside == bet < _limits(g)[1] \/ bet > _limits(g)[2]
             short == eco_get(g, u) < bet
         IN  /\ (off \/ outside \/ short) => WagerRefused(h)
             /\ wg'[h].out \notin EarlierReasons =>
                  /\ off => wg'[h].out = "disabled"
                  /\ (~off /\ outside) => wg'[h].out = "limits"
                  /\ (~off /\ ~outside /\ short) => wg'[h].out = "insufficient"]_vars

C19_Witness ==
  \E h \in WagerHandlers :
    /\ wg[h].pc = "reply" /\ wg[h].out = "limits" /\ wg[h].bet = 5
    /\ wg[h].game = "coinflip"
    /\ _limits(wg[h].g)[1] = 10 /\ _limits(wg[h].g)[2] = 50000
    /\ eco_get(wg[h].g, wg[h].u) = bal0
    /\ history[wg[h].g] = EmptyMap

\* C20: with GAMBLING_CHANNEL_ID set, a wager command issued in another
\* channel is turned down with nothing changed; with it unset or cleared, no
\* wager command is turned down for its channel.
C20_ChannelConfinement ==
  [][\A h \in WagerHandlers :
       WagerCalled(h) =>
         LET allowed == IF "GAMBLING_CHANNEL_ID" \in DOMAIN settings[wg'[h].g]
                          THEN settings[wg'[h].g]["GAMBLING_CHANNEL_ID"]
                          ELSE None
         IN  /\ (allowed # None /\ wg'[h].channel # allowed) =>
                  (wg'[h].out = "channel" /\ WagerRefused(h))
             /\ allowed = None => wg'[h].out # "channel"]_vars

C20_Witness ==
  \E h \in WagerHandlers :
    /\ wg[h].pc = "reply" /\ wg[h].out = "channel" /\ wg[h].channel = "ch2"
    /\ _get_gambling_channel_id(wg[h].g) = "ch1"
    /\ wg[h].bet = 10
    /\ eco_get(wg[h].g, wg[h].u) = bal0

\* ---- the claims on permissions, the daily reward and the ledger records
\* the member holds the guild's manage-guild permission, or a role that is the
\* guild's configured BANKER_ROLE_ID
MayBank(g, manage_guild, roles) ==
  \/ manage_guild
  \/ /\ "BANKER_ROLE_ID" \in DOMAIN settings[g]
     /\ settings[g]["BANKER_ROLE_ID"] # None
     /\ settings[g]["BANKER_ROLE_ID"] \in roles

AdminCodeCmds == {"redeemadmin create", "redeemadmin edit", "redeemadmin delete"}

\* C21: a grant changes a balance, and a redeem-code create, edit or delete
\* changes the codes, only when the caller has the manage-guild permission or a
\* role that is the configured BANKER_ROLE_ID; a call by anyone else leaves the
\* balances and the codes as they were.
C21_BankerOnly ==
  [][/\ \A h \in Handlers :
          (grant[h].pc = "idle" /\ grant'[h].pc = "reply") =>
            IF MayBank(grant'[h].g, grant'[h].manage_guild, grant'[h].roles)
              THEN grant'[h].out = "added"
              ELSE /\ grant'[h].out = "not banker"
                   /\ UNCHANGED <<balances, stats, history, redeem, disk>>
     /\ balances' # balances =>
          \E h \in Handlers :
            /\ grant[h].pc = "idle" /\ grant'[h].pc = "reply"
            /\ MayBank(grant'[h].g, grant'[h].manage_guild, grant'[h].roles)
     /\ redeem' # redeem =>
          /\ last_cmd'.cmd \in AdminCodeCmds
          /\ MayBank(last_cmd'.g, last_cmd'.manage_guild, last_cmd'.roles)]_vars

\* a member with a role, in a guild with no banker role configured, was turned
\* down by /grant and then by /redeemadmin create: no balance moved and no
\* code is stored
C21_Witness ==
  /\ last_cmd.cmd = "redeemadmin create"
  /\ ~last_cmd.manage_guild /\ last_cmd.roles = {"r1"}
  /\ _get_banker_role_id(last_cmd.g) = None
  /\ redeem[last_cmd.g] = EmptyMap
  /\ \E h \in Handlers :
       /\ grant[h].pc = "reply" /\ grant[h].out = "not banker"
       /\ grant[h].roles = {"r1"} /\ ~grant[h].manage_guild
       /\ eco_get(grant[h].g, grant[h].user) = bal0

\* the step in which handler h runs daily_cmd up to its await
DailyCalled(h) == dl[h].pc = "idle" /\ dl'[h].pc = "reply"

\* C22: a daily claim is honored only when at least 84600 seconds have passed
\* since the account's last_daily; an honored claim sets last_daily to now and
\* credits the daily amount once, a claim that is not honored changes neither
\* the balance nor last_daily, nothing else writes either, and so, whatever the
\* interleaving of the handlers, any two honored claims of one account are at
\* least 84600 seconds apart.
C22_DailyCooldown ==
  /\ [][\A h \in Handlers :
          DailyCalled(h) =>
            LET g == dl'[h].g
                u == dl'[h].u
            IN  IF dl'[h].out = "received"
                  THEN /\ now - Get(last_daily[g], u, 0) >= 84600
                       /\ last_daily'[g][u] = now
                       /\ Get(balances'[g], u, 0) = eco_get(g, u) + DAILY_AMOUNT
                  ELSE UNCHANGED <<balances, last_daily>>]_vars
  /\ [][(balances' # balances \/ last_daily' # last_daily) =>
          \E h \in Handlers : DailyCalled(h) /\ dl'[h].out = "received"]_vars
  /\ [](\A g \in Guilds, u \in Users :
          /\ \A i \in 1..Len(trace[g][u].claims), j \in 1..Len(trace[g][u].claims) :
               i < j => trace[g][u].claims[j] - trace[g][u].claims[i] >= 84600
          /\ eco_get(g, u) = bal0 + DAILY_AMOUNT * Len(trace[g][u].claims))

\* an account claimed twice, exactly 84600 seconds apart, and a second handler
\* that claimed for it in the same second as the later claim was turned down
C22_Witness ==
  \E h1 \in Handlers, h2 \in Handlers :
    /\ dl[h1].pc = "reply" /\ dl[h1].out = "received"
    /\ dl[h2].pc = "reply" /\ dl[h2].out = "already"
    /\ dl[h1].g = dl[h2].g /\ dl[h1].u = dl[h2].u /\ dl[h1].at = dl[h2].at
    /\ Len(trace[dl[h1].g][dl[h1].u].claims) = 2
    /\ trace[dl[h1].g][dl[h1].u].claims[2] - trace[dl[h1].g][dl[h1].u].claims[1] = 84600
    /\ eco_get(dl[h1].g, dl[h1].u) = bal0 + 2 * DAILY_AMOUNT

\* the last n elements of q, or all of q when it has fewer
LastN(q, n) == IF Len(q) <= n THEN q ELSE SubSeq(q, Len(q) - n + 1, Len(q))

\* C23: after any sequence of log_history calls the history of an account holds
\* at most 100 entries, the most recently appended ones in the order they were
\* appended; an append to a history of 100 drops exactly its oldest entry.
C23_HistoryCap ==
  /\ [](\A g \in Guilds, u \in Players :
          /\ Len(Get(history[g], u, <<>>)) <= 100
          /\ Get(history[g], u, <<>>) = LastN(trace[g][u].entries, 100))
  /\ [][\A g \in Guilds, u \in Players :
          (Len(Get(history[g], u, <<>>)) = 100 /\ trace'[g][u].entries # trace[g][u].entries)
            => Get(history'[g], u, <<>>) =
                 Append(Tail(history[g][u]),
                        trace'[g][u].entries[Len(trace'[g][u].entries)])]_vars

\* two entries were appended to a history of 100: the two oldest are gone and
\* the two new ones are its last
C23_Witness ==
  \E g \in Guilds, u \in Players :
    /\ Len(trace[g][u].entries) = 102
    /\ Len(Get(history[g], u, <<>>)) = 100
    /\ history[g][u][1].t = 3
    /\ history[g][u][99].result = 5 /\ history[g][u][100].result = -10

RECURSIVE SumPositive(_)
SumPositive(q) ==
  IF q = <<>> THEN 0
  ELSE (IF Head(q) > 0 THEN Head(q) ELSE 0) + SumPositive(Tail(q))

RECURSIVE SumNegative(_)
SumNegative(q) ==
  IF q = <<>> THEN 0
  ELSE (IF Head(q) < 0 THEN -Head(q) ELSE 0) + SumNegative(Tail(q))

RECURSIVE MaxPositive(_)
MaxPositive(q) ==
  IF q = <<>> THEN 0
  ELSE IF Head(q) > MaxPositive(Tail(q)) THEN Head(q) ELSE MaxPositive(Tail(q))

\* C24: after any sequence of eco_add calls on an account whose record started
\* with no win and no loss, stats.won is the sum of the positive deltas
\* applied, stats.lost the sum of the magnitudes of the negative ones, and
\* stats.biggest the largest single positive delta (0 if there was none).
C24_StatsTotals ==
  \A g \in Guilds, u \in Players :
    /\ Get(stats[g], u, NoStats).won = SumPositive(trace[g][u].deltas)
    /\ Get(stats[g], u, NoStats).lost = SumNegative(trace[g][u].deltas)
    /\ Get(stats[g], u, NoStats).biggest = MaxPositive(trace[g][u].deltas)

\* a win of 20, a smaller win of 5 and a loss of 10 were applied, in that order
C24_Witness ==
  \E g \in Guilds, u \in Players :
    /\ trace[g][u].deltas = <<20, 5, -10>>
    /\ stats[g][u].won = 25 /\ stats[g][u].lost = 10 /\ stats[g][u].biggest = 20
    /\ eco_get(g, u) = bal0 + 15

\* the step settles the hi-lo round on a tie
HiLoPush == ~hl.done /\ hl'.done /\ hl'.nxt_v = hl.base_v

\* the step settles the blackjack round on equal totals, the player not bust
BJPush ==
  /\ ~bj.finished /\ bj'.finished
  /\ card_value(bj'.player) <= 21
  /\ card_value(bj'.player) = card_value(bj'.dealer)

\* the step leaves every balance alone and logs one bet of `bet` on `game` with
\* result 0 for the account (g, u)
LoggedAsPush(g, u, game, bet) ==
  /\ UNCHANGED balances
  /\ Get(history'[g], u, <<>>) =
       Append(Get(history[g], u, <<>>),
              [t |-> now, game |-> game, bet |-> bet, result |-> 0])
  /\ Get(stats'[g], u, NoStats) =
       [Get(stats[g], u, NoStats) EXCEPT !.bets = @ + 1]

\* C25: a push (a hi-lo tie, equal totals at blackjack) leaves the player's
\* balance as it was and counts as a logged bet: one history entry with result
\* 0 is appended and stats.bets grows by 1, the other stats unchanged.
C25_PushLogged ==
  [][/\ HiLoPush => LoggedAsPush(hl.g, hl.u, "hilo", hl.bet)
     /\ BJPush => LoggedAsPush(bj.g, bj.u, "blackjack", bj'.current_bet)]_vars

\* a hi-lo round on a 7 drew another 7: the balance is the one at start and the
\* history holds the one entry of the push
C25_Witness ==
  /\ hl.done /\ hl.base_v = 7 /\ hl.nxt_v = 7 /\ hl.out = "push"
  /\ eco_get(hl.g, hl.u) = bal0
  /\ Len(history[hl.g][hl.u]) = 1 /\ history[hl.g][hl.u][1].result = 0
  /\ stats[hl.g][hl.u] = [NoStats EXCEPT !.bets = 1]

\* ---- the claims on settings, guilds and payouts
SettingKeys == DOMAIN DEFAULT_CONFIG

\* the effective setting of (g, key) under the overrides st: the guild's
\* override when the key is in the guild's map, the process-wide default if not
Effective(st, g, key) ==
  IF key \in DOMAIN st[g] THEN st[g][key] ELSE DEFAULT_CONFIG[key]

\* C26: what guild_setting and _limits return for (guild, key) is the guild's
\* override whenever the key is in the guild's override map and the
\* process-wide default otherwise; a command that writes overrides of one guild
\* leaves the effective value of every key it did not write, and of every key
\* of every other guild, as it was.
C26_EffectiveSetting ==
  /\ [](\A g \in AllGuilds :
          /\ \A key \in SettingKeys : guild_setting(g, key) = Effective(settings, g, key)
          /\ _limits(g) = <<Effective(settings, g, "MIN_BET"),
                            Effective(settings, g, "MAX_BET"),
                            Effective(settings, g, "HOUSE_EDGE"),
                            Effective(settings, g, "DAILY_AMOUNT")>>)
  /\ [][\A g \in AllGuilds, key \in SettingKeys :
          Effective(settings', g, key) # Effective(settings, g, key) =>
            (g = last_cmd'.g /\ key \in last_cmd'.keys)]_vars

\* G2 overrides MIN_BET and the channel, G1 then turned gambling off: G1 still
\* has the default MIN_BET and no channel, G2 its overrides and gambling on
C26_Witness ==
  /\ last_cmd.g = "G1" /\ last_cmd.keys = {"GAMBLING_ENABLED"}
  /\ settings["G1"] = [GAMBLING_ENABLED |-> FALSE]
  /\ guild_setting("G1", "MIN_BET") = MIN_BET
  /\ guild_setting("G2", "MIN_BET") = -5
  /\ guild_setting("G2", "GAMBLING_CHANNEL_ID") = "ch1"
  /\ guild_setting("G2", "GAMBLING_ENABLED")


\* everything the store keeps for guild g
GuildData(g) ==
  <<balances[g], stats[g], history[g], last_daily[g], redeem[g], settings[g]>>

\* the handler slots a step changed, and the guild of the command behind the
\* step: the guild of the slot that changed, or the guild of the slotless command
WagerSlots == {h \in WagerHandlers : wg'[h] # wg[h]}
DailySlots == {h \in Handlers : dl'[h] # dl[h]}
GrantSlots == {h \in Handlers : grant'[h] # grant[h]}
RedeemSlots == {h \in Handlers : rd'[h] # rd[h]}
SlotGuild(before, after) == IF after.pc = "idle" THEN before.g ELSE after.g
StepGuild ==
  IF WagerSlots # {}
    THEN LET h == CHOOSE x \in WagerSlots : TRUE IN SlotGuild(wg[h], wg'[h])
  ELSE IF DailySlots # {}
    THEN LET h == CHOOSE x \in DailySlots : TRUE IN SlotGuild(dl[h], dl'[h])
  ELSE IF GrantSlots # {}
    THEN LET h == CHOOSE x \in GrantSlots : TRUE IN SlotGuild(grant[h], grant'[h])
  ELSE IF RedeemSlots # {}
    THEN LET h == CHOOSE x \in RedeemSlots : TRUE IN SlotGuild(rd[h], rd'[h])
  ELSE last_cmd'.g

\* C27: a wager, a daily claim, a give, a grant, a redeem, a code created or
\* deleted, a settings change or a leaderboard reset in one guild leaves the
\* balances, stats, history, daily timestamps, redeem codes and settings of
\* every other guild as they were.
C27_GuildIsolation ==
  [][\A g \in AllGuilds \ {StepGuild} : GuildData(g)' = GuildData(g)]_vars

\* u2 gave u1 5 in G1, then the leaderboard of G2 was reset: G2 has no balances
\* and no history, G1 keeps the balances and the two entries of the give
C27_Witness ==
  /\ last_cmd.cmd = "panel resetlb" /\ last_cmd.g = "G2"
  /\ balances["G2"] = EmptyMap /\ history["G2"] = EmptyMap
  /\ bal0 > 0
  /\ eco_get("G1", "u1") = bal0 + 5 /\ eco_get("G1", "u2") = bal0 - 5
  /\ DOMAIN history["G1"] = {"u1", "u2"}


\* the step in which log_history of the wager of handler h returns
WagerLogged(h) == wg[h].pc = "log" /\ wg'[h].pc = "reply"

\* C28: a winning coinflip with bet b and edge e applies the one delta
\* round(b*(2.0 - e)) to the balance (balance 1000, bet 100, edge 0.02: 198 and
\* 1198) and adds it to stats.won, a losing coinflip applies the one delta -b
\* and adds b to stats.lost; log_history then appends exactly one entry with
\* game coinflip, bet b and the delta as result, and all of this happens once.
C28_CoinflipDelta ==
  /\ [](/\ CoinflipDelta("heads", "heads", 100, HOUSE_EDGE) = 198
        /\ eco_add_balance(1000, CoinflipDelta("heads", "heads", 100, HOUSE_EDGE))
             = 1198)
  /\ [][\A h \in WagerHandlers :
          (WagerCalled(h) /\ wg'[h].game = "coinflip" /\ wg'[h].out = "none") =>
            LET g == wg'[h].g
                u == wg'[h].u
                b == wg'[h].bet
                d == IF wg'[h].win THEN Round(b * (200 - _limits(g)[3]), 100)
                                   ELSE -b
                old == Get(stats[g], u, NoStats)
            IN  /\ wg'[h].delta = d
                /\ balances'[g][u] = eco_get(g, u) + d
                /\ stats'[g][u].won = old.won + (IF wg'[h].win THEN d ELSE 0)
                /\ stats'[g][u].lost = old.lost + (IF wg'[h].win THEN 0 ELSE b)
                /\ history' = history]_vars
  /\ [][\A h \in WagerHandlers :
          (WagerLogged(h) /\ wg[h].game = "coinflip") =>
            LET g == wg[h].g
                u == wg[h].u
            IN  /\ history'[g][u] =
                     Append(Get(history[g], u, <<>>),
                            [t |-> now, game |-> "coinflip", bet |-> wg[h].bet,
                             result |-> wg[h].delta])
                /\ balances' = balances
                /\ stats'[g][u].won = stats[g][u].won
                /\ stats'[g][u].lost = stats[g][u].lost]_vars
  /\ [][\A h \in WagerHandlers :
          (wg[h].pc = "reply" /\ wg'[h].pc = "idle") =>
            (balances' = balances /\ stats' = stats /\ history' = history)]_vars

\* u1 with 20 bet 10 on heads and won: delta 20 (19.8 rounded), balance 40,
\* won 20, one coinflip entry with bet 10 and result 20
C28_Witness ==
  /\ wg[1].pc = "reply" /\ wg[1].game = "coinflip" /\ wg[1].win
  /\ wg[1].bet = 10 /\ wg[1].delta = 20
  /\ eco_get("G1", "u1") = 40
  /\ stats["G1"]["u1"].won = 20
  /\ Len(history["G1"]["u1"]) = 1
  /\ history["G1"]["u1"][1].game = "coinflip"
  /\ history["G1"]["u1"][1].bet = 10
  /\ history["G1"]["u1"][1].result = 20


\* the sums of the deltas over all equally likely outcomes of one game at bet b
\* and edge e, one sum for each thing the player can pick
OutcomeSums(game, b, e) ==
  IF game = "coinflip"
    THEN {SumOver([res \in Sides |-> CoinflipDelta(side, res, b, e)], Sides) :
            side \in Sides}
  ELSE IF game = "dice"
    THEN {SumOver([r \in Die \X Die |-> DiceDelta(guess, r[1] + r[2], b, e)],
                  Die \X Die) : guess \in {"high", "low"}}
  ELSE IF game = "roulette"
    THEN {SumOver([num \in RouletteNumbers |-> RouletteDelta(choice, num, b, e)],
                  RouletteNumbers) :
            choice \in {ColourChoice("red"), ColourChoice("black"),
                        NumberChoice(0), NumberChoice(17)}}
  ELSE UNION {{SumOver([target \in 1..r |-> GuessDelta(r, guess, target, b, e)],
                       1..r) : guess \in 1..r} : r \in GuessRanges}

\* C29: for coinflip, dice, roulette and guess, the sum of the deltas over all
\* equally likely outcomes of an accepted wager is negative at the guild's edge
\* (the house wins in expectation), whatever the player picks.
C29_HouseWins ==
  \A h \in WagerHandlers :
    wg[h].pc = "log" =>
      \A s \in OutcomeSums(wg[h].game, wg[h].bet, _limits(wg[h].g)[3]) : s < 0


\* C30: every wager a game handler accepts (its checks passed and eco_add was
\* called) has a bet of at least 1, whatever limits an admin has set through
\* /gambling_settings or the admin panel.
C30_BetAtLeastOne ==
  \A h \in WagerHandlers : wg[h].pc = "log" => wg[h].bet >= 1


\* ---- the claims on dice, blackjack, gives and spawns
\* C31: an accepted dice wager with roll r and guess g applies
\* round(bet*(2.0 - edge)) exactly when (r >= 8 and g = high) or (r <= 6 and
\* g = low), and -bet otherwise; a roll of 7 loses for both guesses.
C31_DiceOutcome ==
  [][\A h \in WagerHandlers :
       (WagerCalled(h) /\ wg'[h].game = "dice" /\ wg'[h].out = "none") =>
         LET g == wg'[h].g
             u == wg'[h].u
             b == wg'[h].bet
             r == wg'[h].roll
             wins == \/ (r >= 8 /\ wg'[h].pick = "high")
                     \/ (r <= 6 /\ wg'[h].pick = "low")
         IN  /\ r \in 2..12
             /\ wg'[h].win = wins
             /\ wg'[h].delta = IF wins THEN Round(b * (200 - _limits(g)[3]), 100)
                                       ELSE -b
             /\ r = 7 => wg'[h].delta = -b
             /\ balances'[g][u] = eco_get(g, u) + wg'[h].delta]_vars

\* u1 bet 10 on high and rolled 7: a loss of 10 from 20
C31_Witness ==
  /\ wg[1].pc = "reply" /\ wg[1].game = "dice" /\ wg[1].pick = "high"
  /\ wg[1].roll = 7 /\ wg[1].delta = -10 /\ wg[1].out = "lost"
  /\ eco_get("G1", "u1") = 10


\* the step in which finish() settles the blackjack round
BJSettles == ~bj.finished /\ bj'.finished
\* the clicks, told apart by what they change before finish() is called
BJStandStep == bj'.player = bj.player /\ bj'.current_bet = bj.current_bet
BJHitStep ==
  Len(bj'.player) = Len(bj.player) + 1 /\ bj'.current_bet = bj.current_bet
BJDoubleStep == bj'.current_bet = 2 * bj.current_bet /\ bj.current_bet > 0
\* the dealer drew only while below 17, and stopped at 17 or more
DealerDrewTo17 ==
  /\ Len(bj'.dealer) >= Len(bj.dealer)
  /\ SubSeq(bj'.dealer, 1, Len(bj.dealer)) = bj.dealer
  /\ card_value(bj'.dealer) >= 17
  /\ \A n \in Len(bj.dealer)..(Len(bj'.dealer) - 1) :
       card_value(SubSeq(bj'.dealer, 1, n)) < 17

\* C32: a Stand that settles the round has the dealer draw until 17 or more
\* and applies round(current_bet*(2.0 - edge)) if the dealer busts or the
\* player's value is higher, 0 if the values are equal, -current_bet otherwise;
\* a Hit that takes the player above 21 settles at once with -current_bet.
C32_StandAndBust ==
  [][/\ (BJSettles /\ BJStandStep) =>
          LET pv == card_value(bj'.player)
              dv == card_value(bj'.dealer)
              cb == bj.current_bet
              d == bj'.deltas[Len(bj'.deltas)]
          IN  /\ DealerDrewTo17
              /\ d = IF dv > 21 \/ pv > dv THEN Round(cb * (200 - bj.edge), 100)
                     ELSE IF pv = dv THEN 0
                     ELSE -cb
              /\ balances'[bj.g][bj.u] = eco_get(bj.g, bj.u) + d
     /\ (~bj.finished /\ BJHitStep /\ card_value(bj'.player) > 21) =>
          /\ bj'.finished
          /\ bj'.deltas = Append(bj.deltas, -bj.current_bet)
          /\ balances'[bj.g][bj.u] = eco_get(bj.g, bj.u) - bj.current_bet
     /\ (BJSettles /\ BJHitStep) => card_value(bj'.player) > 21]_vars

\* u1 stood on 17 with a bet of 20, the dealer drew from 14 to a bust: 40 won
C32_Witness ==
  /\ bj.finished /\ bj.current_bet = 20 /\ bj.bet = 20
  /\ bj.player = <<"7", "K">>
  /\ Len(bj.dealer) = 3 /\ card_value(bj.dealer) > 21
  /\ card_value(SubSeq(bj.dealer, 1, 2)) = 14
  /\ bj.deltas = <<40>>
  /\ eco_get("G1", "u1") = 60


\* the round is still on the screen with live buttons: not yet settled, or
\* settled with the edit that disables the buttons still in flight
BJLive == bj.attached /\ (~bj.finished \/ bj.editing)

HardTotal(hand) ==
  LET pts(r) == IF r \in {"J", "Q", "K"} THEN 10 ELSE IF r = "A" THEN 1
                ELSE RankInt[r]
  IN  SumOver([i \in 1 .. Len(hand) |-> pts(hand[i])], 1 .. Len(hand))
AceCount(hand) == Cardinality({i \in 1 .. Len(hand) : hand[i] = "A"})
StandardTotal(hand) ==
  LET totals == {HardTotal(hand) + 10 * k : k \in 0 .. AceCount(hand)}
      good == {t \in totals : t <= 21}
  IN  IF good = {} THEN HardTotal(hand)
      ELSE CHOOSE t \in good : \A o \in good : o <= t

\* C34: card_value of every hand of a round, the player's and the dealer's, is
\* the standard blackjack total: faces 10, number cards their rank, aces 11
\* downgraded to 1 one at a time while the hand busts, i.e. the largest total
\* not above 21 over the valuations of the aces, or the all-aces-as-1 total.
C34_CardValue ==
  bj.pc # "idle" =>
    /\ card_value(bj.player) = StandardTotal(bj.player)
    /\ card_value(bj.dealer) = StandardTotal(bj.dealer)

\* A, A, 9: one ace downgraded and one kept at 11 makes 21
C34_Witness ==
  /\ bj.player = <<"A", "A", "9">> /\ card_value(bj.player) = 21
  /\ CardSum(bj.player) = <<31, 2>>

\* the sum of the balances of guild g
GuildSum(b, g) == SumOver(b[g], DOMAIN b[g])

GiveStep == last_cmd'.cmd = "give" /\ ops' = ops + 1
GiveRejected(c) ==
  \/ c.user = c.sender \/ c.user \in Bots
  \/ c.amount <= 0
  \/ balances[c.g][c.sender] < c.amount

LeaderboardReset(g) == \E u \in Users : trace[g][u].reset
Accounts(g) == (DOMAIN balances[g]) \cup (DOMAIN stats[g])

\* C36: from an empty store, as long as the leaderboard of a guild has not been
\* reset, every account of the guild has balance = stats.won - stats.lost.
C36_BalanceIsNet ==
  \A g \in AllGuilds :
    ~LeaderboardReset(g) =>
      \A u \in Accounts(g) :
        eco_get(g, u) = Get(stats[g], u, NoStats).won - Get(stats[g], u, NoStats).lost

\* u1 was granted 10 and gave 5 of it to u2 in G1, never reset
C36_Witness ==
  /\ ~LeaderboardReset("G1")
  /\ eco_get("G1", "u1") = 5 /\ eco_get("G1", "u2") = 5
  /\ stats["G1"]["u1"].won = 10 /\ stats["G1"]["u1"].lost = 5


\* C37: for each message-triggered spawn at most one message is taken for the
\* winning answer and the reward is credited at most once, however the
\* on_message handlers of correct answers interleave; an answer that arrives
\* after the 120-second deadline earns nothing.
C37_OneWinner ==
  /\ [](\A i, j \in 1 .. Len(jjk.wins) :
          jjk.wins[i].id = jjk.wins[j].id => i = j)
  /\ [][(jjk.active.id # 0 /\ now > jjk.active.deadline) =>
          (jjk'.wins = jjk.wins /\ balances' = balances)]_vars


\* auto-spawn is enabled for guild g: unitspawn_auto_on stored its entry and
\* no unitspawn_auto_off removed it
AutoEnabled(g) == g \in auto.file

\* C38: while auto-spawn is enabled for a guild, its worker loop keeps running
\* and eventually attempts another spawn, whatever unitspawn commands run in
\* other guilds and whatever unitspawn_settings queries run in its own.
C38_WorkerKeepsRunning ==
  \A g \in AllGuilds :
    /\ [](AutoEnabled(g) => auto.worker[g].pc # "done")
    /\ [](AutoEnabled(g) => <>(auto.worker[g].pc = "send" \/ ~AutoEnabled(g)))

\* a click on a button of the blackjack view that changed the round
BJClickStep ==
  /\ bj.attached /\ bj'.attached
  /\ ~(bj.editing /\ ~bj'.editing)
  /\ bj' # bj

\* C39: a round's balance delta is only ever triggered by the player who
\* started the round: a click by any other member on the buttons of the round
\* neither settles it nor changes the starter's balance.
C39_OnlyStarterSettles ==
  [][(BJClickStep /\ bj'.clicker # bj.u) =>
       (~BJSettles /\ eco_get(bj.g, bj.u)' = eco_get(bj.g, bj.u))]_vars

\* C40: when the durable write inside eco_add fails, the in-memory balance and
\* stats of the account are as they were before the call, so the failed delta
\* is neither read later nor written by a later save.
C40_FailedWriteRolledBack ==
  [][\A h \in WagerHandlers :
       (WagerCalled(h) /\ wg'[h].failed) =>
         /\ Get(balances'[wg'[h].g], wg'[h].u, 0) = eco_get(wg'[h].g, wg'[h].u)
         /\ stats' = stats]_vars
====
